---- MODULE Spec2Model ----
(***************************************************************************)
(* A model of the prompt runner of discourse-ui (Input::run and the        *)
(* TerminalState guard, discourse-ui/src/input.rs).                         *)
(*                                                                         *)
(* One action is one step of Input::run: the call of init, or one          *)
(* iteration of the event loop (one pulled key event and everything the    *)
(* runner does for it, including the drop of the guard when run returns).  *)
(* Every backend call may fail with an I/O error; u16 arithmetic either    *)
(* panics on overflow (overflow checks on, the debug profile) or wraps     *)
(* (checks off, the release profile).                                      *)
(***************************************************************************)
EXTENDS Integers, Sequences, FiniteSets, TLC

\* ---------------------------------------------------------------- bounds
MaxTermH == 3        \* terminal heights 1..MaxTermH
MaxHeight == 2       \* prompt heights 1..MaxHeight
MaxErrHeight == 2    \* heights of the validation-error widget
MaxCol == 1          \* cursor columns 0..MaxCol reported by cursor_pos
\* the arguments of the row arithmetic taken on its own (SpecScroll)
ScrollMaxRow == 10     \* base_row 0..ScrollMaxRow
ScrollMaxTermH == 10   \* terminal heights 1..ScrollMaxTermH
ScrollMaxHeight == 5   \* heights 0..ScrollMaxHeight
\* questions being built and asked (SpecList)
MaxChoices == 3        \* entries a choice list is given at most
MaxDefault == 3        \* default indices 0..MaxDefault given to a builder
MaxPageSize == 5       \* page sizes MinPageSize - 1 .. MaxPageSize given to a builder
MaxDigit == 3          \* digits 0..MaxDigit typed into the answer input
MaxText == 2           \* characters the answer input holds at most
\* layouts and widgets (SpecLayout)
MaxWidth == 4          \* layout widths 2..MaxWidth
MaxPrompt == 3         \* characters 1..MaxPrompt the prompt line writes
MaxValue == 6          \* characters 0..MaxValue in the input
\* the guard taken on its own (SpecGuard)
MaxGuardOps == 6       \* mode calls after which no further method of the guard is called

\* u16 arithmetic
U16 == 65536
I16Min == -32768

VARIABLES
    pc,           \* "new" (constructed), "running" (blocked in events.next()),
                  \* "key" (an event was pulled), "done" (run returned)
    base_row,     \* Input.base_row
    size,         \* Input.size.height (the width takes no part in the runner's arithmetic)
    enabled,      \* TerminalState.enabled
    hide_cursor,  \* TerminalState.hide_cursor
    checks,       \* the build's overflow checks: TRUE panics, FALSE wraps
    termH,        \* the height the backend reports from size()
    pheight,      \* what prompt.height() returns for the prompt's current state
    pcur,         \* what prompt.cursor_pos() returns: <<col, row>>
    has_default,  \* what prompt.has_default() returns
    vmode,        \* the prompt's validate policy
    nvalidate,    \* calls of validate so far (capped at 2; counted for scripted policies)
    log,          \* the calls of init, or of the current loop iteration, in order
    modeOps,      \* the raw-mode / cursor-visibility calls of the whole run, in order
    lastKey,      \* the event of the current loop iteration
    branch,       \* the match arm the current loop iteration took
    vout,         \* what validate returned in this iteration ("none" if not called)
    events,       \* the iterator run reads: any events in any number, or a
                  \* given finite sequence of which `rest` is still to come
    errRow,       \* the terminal's screen: whether a failure glyph written by
                  \* print_error is still on it, and in which screen row
    question,     \* the question being built or asked (NoQuestion while the
                  \* runner is looked at on its own)
    result        \* what the caller of run sees

vars == <<pc, base_row, size, enabled, hide_cursor, checks, termH, pheight, pcur,
          has_default, vmode, nvalidate, log, modeOps, lastKey, branch, vout, errRow,
          events, question, result>>

promptVars == <<pheight, pcur>>

MinPageSize == 5       \* the assertion of RawSelectBuilder::page_size
DefaultPageSize == 15  \* ChoiceList::default

\* ---------------------------------------------------------------- values
NoErr == [kind |-> "none", op |-> "", n |-> 0]
IoErr(name, n) == [kind |-> "Io", op |-> name, n |-> n]
PanicErr(what, n) == [kind |-> "Panic", op |-> what, n |-> n]
Running == [kind |-> "running", op |-> "", n |-> 0]
OkValue(which) == [kind |-> "Ok", op |-> which, n |-> 0]
Interrupted == [kind |-> "Interrupted", op |-> "", n |-> 0]
Eof == [kind |-> "Eof", op |-> "", n |-> 0]

\* an iterator of any events, and one that yields the sequence l and ends
NoScript == [script |-> FALSE, rest |-> <<>>, given |-> <<>>]
\* no question: the runner with a prompt given by its height, cursor and validate
NoQuestion == [kind |-> "none"]

Script(l) == [script |-> TRUE, rest |-> l, given |-> l]

KeyCodes == {"Char_c", "Char_x", "Null", "Esc", "Enter"}
\* Key events: a code and whether the modifiers contain CONTROL.
Events ==
    {[code |-> c, ctrl |-> FALSE] : c \in KeyCodes} \cup {[code |-> "Char_c", ctrl |-> TRUE]}
NoKey == [code |-> "none", ctrl |-> FALSE]

VModes == {"any", "always_err", "err_then_finish"}

\* A logged call: who made it (run itself, or the drop of the guard), its
\* arguments, whether it succeeded, and for a backend call its number n
\* among the backend calls of the step.
Entry(kind, name, a, b, ok, by, n) ==
    [kind |-> kind, op |-> name, a |-> a, b |-> b, ok |-> ok, by |-> by, n |-> n]

\* ---------------------------------------------------------------- the machine
\* The record m is the Input value while a step runs: its fields, the calls
\* made so far, the error being propagated by `?` (or the panic unwinding),
\* and the environment's choices for this step (failAt, dropFail).

\* A call of a Backend method under `?`: skipped once an error propagates,
\* otherwise logged; it fails if the environment chose it to.
Fails(m, name, n) ==
    IF m.by = "drop" THEN name \in m.dropFail ELSE n = m.failAt

\* (mutant of Be) a failed call is logged but its error is not propagated
Be_ignores_error(m, name, a, b) ==
    IF m.err # NoErr THEN m
    ELSE LET n == m.n + 1 IN
         [m EXCEPT !.n = n,
                   !.log = Append(@, Entry("backend", name, a, b, ~Fails(m, name, n), m.by, n))]

Be(m, name, a, b) ==
    IF m.err # NoErr THEN m
    ELSE LET n == m.n + 1 IN
         IF Fails(m, name, n)
         THEN [m EXCEPT !.n = n, !.err = IoErr(name, n),
                        !.log = Append(@, Entry("backend", name, a, b, FALSE, m.by, n))]
         ELSE [m EXCEPT !.n = n,
                        !.log = Append(@, Entry("backend", name, a, b, TRUE, m.by, n))]

\* A call of a Prompt / Widget method that returns no Result.
Pc(m, name, a, b) ==
    IF m.err # NoErr THEN m
    ELSE [m EXCEPT !.log = Append(@, Entry("prompt", name, a, b, TRUE, m.by, 0))]

\* A step of the guard itself (a call of reset, a write of `enabled`).
Gd(m, name, a) ==
    IF m.err # NoErr THEN m
    ELSE [m EXCEPT !.log = Append(@, Entry("guard", name, a, 0, TRUE, m.by, 0))]

Panic(m, what) ==
    IF m.err # NoErr THEN m ELSE [m EXCEPT !.err = PanicErr(what, m.n)]

SetBaseRow(m, v) == IF m.err # NoErr THEN m ELSE [m EXCEPT !.base_row = v]
SetRet(m, v) == IF m.err # NoErr THEN m ELSE [m EXCEPT !.ret = v]

\* u16 `a - b` and `a + b`: TRUE when the operation overflows.
SubOverflows(a, b) == a < b
AddOverflows(a, b) == a + b >= U16
Wrap(v) == v % U16
\* `dist as i16`
AsI16(v) == IF v >= 32768 THEN v - U16 ELSE v

saturating_sub(a, b) == IF a < b THEN 0 ELSE a - b

\* TerminalState::init
\* (mutant of TerminalState_init) the guard is marked enabled after the two calls
TerminalState_init_enables_last(m) ==
    LET m1 == IF m.hide_cursor THEN Be(m, "hide_cursor", 0, 0) ELSE m
        m2 == Be(m1, "enable_raw_mode", 0, 0)
    IN  Gd([m2 EXCEPT !.enabled = (m2.err = NoErr)], "set_enabled", 1)

TerminalState_init(m) ==
    LET m1 == Gd([m EXCEPT !.enabled = TRUE], "set_enabled", 1)
        m2 == IF m.hide_cursor THEN Be(m1, "hide_cursor", 0, 0) ELSE m1
    IN  Be(m2, "enable_raw_mode", 0, 0)

\* TerminalState::reset
TerminalState_reset(m) ==
    IF m.err # NoErr THEN m
    ELSE LET m0 == Gd(m, "reset", 0)
             m1 == Gd([m0 EXCEPT !.enabled = FALSE], "set_enabled", 0)
             m2 == IF m.hide_cursor THEN Be(m1, "show_cursor", 0, 0) ELSE m1
         IN  Be(m2, "disable_raw_mode", 0, 0)

\* Drop for TerminalState: runs when run returns or unwinds; the result of
\* reset is discarded (`let _ =`).
\* (mutant of Drop_drop) the error of reset replaces the one being propagated
Drop_drop_propagates(m) ==
    IF m.enabled
    THEN LET r == TerminalState_reset([m EXCEPT !.err = NoErr, !.by = "drop"])
         IN  [r EXCEPT !.err = IF r.err # NoErr THEN r.err ELSE m.err, !.by = "run"]
    ELSE m

\* (mutant of Drop_drop) the drop resets without looking at `enabled`
Drop_drop_unconditional(m) ==
    LET r == TerminalState_reset([m EXCEPT !.err = NoErr, !.by = "drop"])
    IN  [r EXCEPT !.err = m.err, !.by = "run"]

Drop_drop(m) ==
    IF m.enabled
    THEN LET r == TerminalState_reset([m EXCEPT !.err = NoErr, !.by = "drop"])
         IN  [r EXCEPT !.err = m.err, !.by = "run"]
    ELSE m

\* (mutant of adjust_scrollback) triggers on `>` where the source has `>=`
adjust_scrollback_strict(m, height) ==
    IF m.err # NoErr THEN m
    ELSE
    LET th == m.size IN
    IF SubOverflows(th, height) /\ m.checks THEN Panic(m, "th - height")
    ELSE
    IF m.base_row > Wrap(th - height)
    THEN IF AddOverflows(m.base_row, height) /\ m.checks
         THEN Panic(m, "base_row + height")
         ELSE LET s1 == Wrap(m.base_row + height) IN
         IF SubOverflows(s1, th) /\ m.checks
         THEN Panic(m, "base_row + height - th")
         ELSE LET s2 == Wrap(s1 - th) IN
         IF AddOverflows(s2, 1) /\ m.checks
         THEN Panic(m, "base_row + height - th + 1")
         ELSE LET dist == Wrap(s2 + 1) IN
         IF SubOverflows(m.base_row, dist) /\ m.checks
         THEN Panic(m, "base_row -= dist")
         ELSE LET new_row == Wrap(m.base_row - dist) IN
         IF AsI16(dist) = I16Min /\ m.checks
         THEN Panic(m, "-(dist as i16)")
         ELSE LET arg == IF AsI16(dist) = I16Min THEN I16Min ELSE 0 - AsI16(dist)
                  m1 == Be(m, "scroll", arg, 0)
                  m2 == Be(m1, "move_cursor_up", dist, 0)
              IN  SetRet(m2, new_row)
    ELSE SetRet(m, m.base_row)

\* Input::adjust_scrollback: leaves the new base_row in m.ret; self.base_row
\* is not written here.
adjust_scrollback(m, height) ==
    IF m.err # NoErr THEN m
    ELSE
    LET th == m.size IN
    IF SubOverflows(th, height) /\ m.checks THEN Panic(m, "th - height")
    ELSE
    IF m.base_row >= Wrap(th - height)
    THEN IF AddOverflows(m.base_row, height) /\ m.checks
         THEN Panic(m, "base_row + height")
         ELSE LET s1 == Wrap(m.base_row + height) IN
         IF SubOverflows(s1, th) /\ m.checks
         THEN Panic(m, "base_row + height - th")
         ELSE LET s2 == Wrap(s1 - th) IN
         IF AddOverflows(s2, 1) /\ m.checks
         THEN Panic(m, "base_row + height - th + 1")
         ELSE LET dist == Wrap(s2 + 1) IN
         IF SubOverflows(m.base_row, dist) /\ m.checks
         THEN Panic(m, "base_row -= dist")
         ELSE LET new_row == Wrap(m.base_row - dist) IN
         IF AsI16(dist) = I16Min /\ m.checks
         THEN Panic(m, "-(dist as i16)")
         ELSE LET arg == IF AsI16(dist) = I16Min THEN I16Min ELSE 0 - AsI16(dist)
                  m1 == Be(m, "scroll", arg, 0)
                  m2 == Be(m1, "move_cursor_up", dist, 0)
              IN  SetRet(m2, new_row)
    ELSE SetRet(m, m.base_row)

\* `self.base_row + x` in a call argument
RowPlus(m, x) ==
    IF m.err # NoErr THEN m
    ELSE IF AddOverflows(m.base_row, x) /\ m.checks THEN Panic(m, "base_row + row")
    ELSE SetRet(m, Wrap(m.base_row + x))

\* (mutant of flush) asks for the cursor position and moves the cursor
\* whether or not the cursor is hidden
flush_ignores_hide_cursor(m) ==
    LET c == Pc(m, "cursor_pos", m.pcur[1], m.pcur[2])
        r == RowPlus(c, m.pcur[2])
        m1 == Be(r, "move_cursor_to", m.pcur[1], r.ret)
    IN  Be(m1, "flush", 0, 0)

\* Input::flush
flush(m) ==
    LET m1 == IF ~m.hide_cursor
              THEN LET c == Pc(m, "cursor_pos", m.pcur[1], m.pcur[2])
                       r == RowPlus(c, m.pcur[2])
                   IN  Be(r, "move_cursor_to", m.pcur[1], r.ret)
              ELSE m
    IN  Be(m1, "flush", 0, 0)

\* Input::clear
clear(m) ==
    Be(Be(m, "move_cursor_to", 0, m.base_row), "clear", 0, 0)

\* `self.size = self.backend.size()?`
size_refresh(m) ==
    LET m1 == Be(m, "size", m.th, 0)
    IN  IF m1.err # NoErr THEN m1 ELSE [m1 EXCEPT !.size = m.th]

\* (mutant of render) leaves base_row as it is, without the adjustment
render_unadjusted(m) ==
    LET m1 == size_refresh(m)
        m2 == Pc(m1, "height", m.ph, m1.size)
        m5 == clear(m2)
        m6 == Be(m5, "prompt_render", m5.base_row, 0)
    IN  flush(m6)

\* (mutant of render) feeds the prompt's height as it is, without the
\* saturating_sub(1)
render_declared_height(m) ==
    LET m1 == size_refresh(m)
        m2 == Pc(m1, "height", m.ph, m1.size)
        m3 == adjust_scrollback(m2, m.ph)
        m4 == SetBaseRow(m3, m3.ret)
        m5 == clear(m4)
        m6 == Be(m5, "prompt_render", m5.base_row, 0)
    IN  flush(m6)

\* (mutant of render) clears before the scrollback is adjusted
render_clears_before_adjust(m) ==
    LET m1 == size_refresh(m)
        height == saturating_sub(m.ph, 1)
        m2 == Pc(m1, "height", m.ph, m1.size)
        m3 == clear(m2)
        m4 == adjust_scrollback(m3, height)
        m5 == SetBaseRow(m4, m4.ret)
        m6 == Be(m5, "prompt_render", m5.base_row, 0)
    IN  flush(m6)

\* Input::render
render(m) ==
    LET m1 == size_refresh(m)
        height == saturating_sub(m.ph, 1)
        m2 == Pc(m1, "height", m.ph, m1.size)
        m3 == adjust_scrollback(m2, height)
        m4 == SetBaseRow(m3, m3.ret)
        m5 == clear(m4)
        m6 == Be(m5, "prompt_render", m5.base_row, 0)
    IN  flush(m6)

\* Input::goto_last_line
goto_last_line(m, height) ==
    LET m1 == adjust_scrollback(m, height)
        m2 == SetBaseRow(m1, m1.ret)
        m3 == RowPlus(m2, height)
    IN  Be(m3, "move_cursor_to", 0, m3.ret)

\* Input::print_error, for an error widget eh rows high
print_error(m, eh) ==
    LET m1 == size_refresh(m)
        height == m.ph
        m2 == Pc(m1, "height", m.ph, m1.size)
        m3 == goto_last_line(m2, height)
        m4 == Be(m3, "write_styled", 0, 0)
        m5 == Be(m4, "write_all", 0, 0)
        m6 == RowPlus(m5, height)                 \* the layout's offset row
        row == m6.ret
        m7 == Pc(m6, "err_height", eh, 0)
        m8 == IF m7.err # NoErr THEN m7
              ELSE IF AddOverflows(height, saturating_sub(eh, 1)) /\ m7.checks
              THEN Panic(m7, "height + e.height")
              ELSE adjust_scrollback(m7, Wrap(height + saturating_sub(eh, 1)))
        m9 == Be(m8, "err_render", row, 0)         \* the returned base_row is dropped
    IN  flush(m9)

\* Input::exit
exit(m) ==
    LET m1 == size_refresh(m)
        m2 == Pc(m1, "height", m.ph, m1.size)
        m3 == goto_last_line(m2, m.ph)
    IN  TerminalState_reset(m3)

\* (mutant of finish) releases the terminal without clearing the prompt
finish_without_clear(m, pressed_enter) ==
    LET m2 == TerminalState_reset(m)
    IN  IF pressed_enter THEN Pc(m2, "finish", 0, 0) ELSE Pc(m2, "finish_default", 0, 0)

\* Input::finish; the prompt's finish / finish_default is logged as a call
finish(m, pressed_enter) ==
    LET m1 == clear(m)
        m2 == TerminalState_reset(m1)
    IN  IF pressed_enter THEN Pc(m2, "finish", 0, 0) ELSE Pc(m2, "finish_default", 0, 0)

\* Input::init, for the cursor row the backend reports
Input_init(m, row) ==
    LET m1 == TerminalState_init(m)
        m2 == Be(m1, "get_cursor_pos", row, 0)
        m3 == SetBaseRow(m2, row)
    IN  render(m3)

\* ---------------------------------------------------------------- the prompt
\* The states a prompt can be in after it handled a key: a height and a
\* cursor position inside it. With the cursor hidden cursor_pos is never
\* evaluated, and one position stands for all.
PromptStates ==
    {ps \in [h : 1..MaxHeight, cur : (0..MaxCol) \X (0..(MaxHeight - 1))] :
        /\ ps.cur[2] < ps.h
        /\ hide_cursor => ps.cur = <<0, 0>>}

\* What validate may return, by the prompt's policy.
ValidateOutcomes ==
    CASE vmode = "always_err" -> {"Err"}
      [] vmode = "err_then_finish" -> IF nvalidate = 0 THEN {"Err"} ELSE {"Finish"}
      [] OTHER -> {"Finish", "Continue", "Err"}

\* ---------------------------------------------------------------- run
\* The Input value at the start of a step, with the environment's choices:
\* the backend call that fails (k, 0 for none), the calls that fail while
\* the guard is dropped (df), and the prompt's state (ph, cur).
M0(k, df, ph, cur) ==
    [base_row |-> base_row, size |-> size, enabled |-> enabled,
     hide_cursor |-> hide_cursor, checks |-> checks, th |-> termH,
     ph |-> ph, pcur |-> cur, log |-> <<>>, err |-> NoErr, n |-> 0, ret |-> 0,
     failAt |-> k, dropFail |-> df, by |-> "run"]

DropFails == SUBSET {"show_cursor", "disable_raw_mode"}

IsModeEntry(e) ==
    e.op \in {"hide_cursor", "show_cursor", "enable_raw_mode", "disable_raw_mode", "reset"}

\* The drop of self when run returns: the guard's Drop, in which the calls
\* named by df fail. (df is a choice only when the drop calls the backend.)
DropSelf(m, df) ==
    /\ (df # {}) => m.enabled
    /\ \A name \in df : name = "show_cursor" => m.hide_cursor

\* The terminal, as far as the failure glyph goes: the effect of one
\* successful backend call on the cursor row (cur) and on the glyph's row.
\* scroll(-d) moves the screen's content up by d rows, clear erases from the
\* cursor's row down, write_styled writes the glyph in the cursor's row.
ScreenCall(s, e) ==
    IF e.kind # "backend" \/ ~e.ok THEN s
    ELSE IF e.op = "move_cursor_to" THEN [s EXCEPT !.cur = e.b]
    ELSE IF e.op = "move_cursor_up" THEN [s EXCEPT !.cur = s.cur - e.a]
    ELSE IF e.op = "scroll" THEN [s EXCEPT !.row = s.row + e.a]
    ELSE IF e.op = "clear" /\ s.row >= s.cur THEN [s EXCEPT !.shown = FALSE]
    ELSE IF e.op = "write_styled" THEN [s EXCEPT !.shown = TRUE, !.row = s.cur]
    ELSE s

RECURSIVE ScreenAfter(_, _)
ScreenAfter(s, l) ==
    IF l = <<>> THEN s ELSE ScreenAfter(ScreenCall(s, Head(l)), Tail(l))

NoRow == [shown |-> FALSE, row |-> 0]

\* the glyph on the screen after the calls in l
ErrRowAfter(l) ==
    LET s == ScreenAfter([cur |-> 0, shown |-> errRow.shown, row |-> errRow.row], l)
    IN  IF s.shown THEN [shown |-> TRUE, row |-> s.row] ELSE NoRow

\* The end of a step of run. `value` is what the step returns when nothing
\* failed (Running: the loop goes on). An error or panic in m returns from
\* run through `?` / unwinding. Whenever run returns, self is dropped.
RunStep(m, value) ==
    LET ends == m.err # NoErr \/ value # Running
        f == IF ends THEN Drop_drop(m) ELSE m
    IN  /\ ends \/ m.dropFail = {}
        /\ ends => DropSelf(m, m.dropFail)
        /\ pc' = IF ends THEN "done" ELSE "running"
        /\ result' = IF f.err # NoErr THEN f.err ELSE value
        /\ base_row' = f.base_row
        /\ size' = f.size
        /\ enabled' = f.enabled
        /\ log' = f.log
        /\ errRow' = ErrRowAfter(f.log)
        /\ modeOps' = modeOps \o SelectSeq(f.log, IsModeEntry)

\* The backend calls a step makes when none fails: the positions at which
\* one can fail.
FailPoints(m) == 0..(m.n)

\* (mutant of Dispatch) without the Null arm: Null falls through to the prompt
Dispatch_null_to_prompt(e) ==
    IF e.code = "Char_c" /\ e.ctrl THEN "ctrl_c"
    ELSE IF e.code = "Esc" /\ has_default THEN "esc_default"
    ELSE IF e.code = "Enter" THEN "enter"
    ELSE "other"

\* (mutant of Dispatch) the Esc arm without its has_default guard
Dispatch_esc_unguarded(e) ==
    IF e.code = "Char_c" /\ e.ctrl THEN "ctrl_c"
    ELSE IF e.code = "Null" THEN "null"
    ELSE IF e.code = "Esc" THEN "esc_default"
    ELSE IF e.code = "Enter" THEN "enter"
    ELSE "other"

\* The match of run on the key event, in the order of its arms.
Dispatch(e) ==
    IF e.code = "Char_c" /\ e.ctrl THEN "ctrl_c"
    ELSE IF e.code = "Null" THEN "null"
    ELSE IF e.code = "Esc" /\ has_default THEN "esc_default"
    ELSE IF e.code = "Enter" THEN "enter"
    ELSE "other"

\* `self.init()?`
RunInit ==
    /\ pc = "new"
    /\ \E row \in 0..(termH - 1) :
       \E k \in FailPoints(Input_init(M0(0, {}, pheight, pcur), row)), df \in DropFails :
          RunStep(Input_init(M0(k, df, pheight, pcur), row), Running)
    /\ lastKey' = NoKey
    /\ branch' = "init"
    /\ vout' = "none"
    /\ UNCHANGED <<hide_cursor, checks, termH, events, question, promptVars, has_default, vmode, nvalidate>>

\* What `events.next()` can yield as Some(Ok(e)).
NextEvents ==
    IF ~events.script THEN Events
    ELSE IF events.rest = <<>> THEN {} ELSE {Head(events.rest)}

\* `events.next()` yields Some(Ok(e)): a new loop iteration starts.
Pull ==
    /\ pc = "running"
    /\ \E e \in NextEvents : lastKey' = e
    /\ events' = IF events.script THEN [events EXCEPT !.rest = Tail(@)] ELSE events
    /\ pc' = "key"
    /\ log' = <<>>
    /\ branch' = "none"
    /\ vout' = "none"
    /\ UNCHANGED <<base_row, size, enabled, hide_cursor, checks, termH, promptVars,
                   has_default, vmode, nvalidate, modeOps, errRow, question, result>>

\* `events.next()` yields Some(Err(_)): the `?` returns the error.
PullErr ==
    /\ pc = "running"
    /\ ~events.script
    /\ \E df \in DropFails :
          RunStep([M0(0, df, pheight, pcur) EXCEPT !.err = IoErr("events.next", 0)], Running)
    /\ lastKey' = NoKey
    /\ branch' = "pull_err"
    /\ vout' = "none"
    /\ UNCHANGED <<hide_cursor, checks, termH, events, question, promptVars, has_default, vmode, nvalidate>>

\* `events.next()` yields None: unwrap panics.
PullNone ==
    /\ pc = "running"
    /\ events.script => events.rest = <<>>
    /\ \E df \in DropFails :
          RunStep([M0(0, df, pheight, pcur) EXCEPT
                      !.err = PanicErr("events.next().unwrap()", 0)], Running)
    /\ lastKey' = NoKey
    /\ branch' = "pull_none"
    /\ vout' = "none"
    /\ UNCHANGED <<hide_cursor, checks, termH, events, question, promptVars, has_default, vmode, nvalidate>>

\* KeyCode::Char('c') with CONTROL
KeyCtrlC ==
    /\ pc = "key"
    /\ Dispatch(lastKey) = "ctrl_c"
    /\ \E k \in FailPoints(exit(M0(0, {}, pheight, pcur))), df \in DropFails :
          RunStep(exit(M0(k, df, pheight, pcur)), Interrupted)
    /\ branch' = "ctrl_c"
    /\ vout' = "none"
    /\ UNCHANGED <<lastKey, hide_cursor, checks, termH, events, question, promptVars, has_default, vmode, nvalidate>>

\* KeyCode::Null
KeyNull ==
    /\ pc = "key"
    /\ Dispatch(lastKey) = "null"
    /\ \E k \in FailPoints(exit(M0(0, {}, pheight, pcur))), df \in DropFails :
          RunStep(exit(M0(k, df, pheight, pcur)), Eof)
    /\ branch' = "null"
    /\ vout' = "none"
    /\ UNCHANGED <<lastKey, hide_cursor, checks, termH, events, question, promptVars, has_default, vmode, nvalidate>>

\* KeyCode::Esc if self.prompt.has_default()
KeyEscDefault ==
    /\ pc = "key"
    /\ Dispatch(lastKey) = "esc_default"
    /\ \E k \in FailPoints(finish(M0(0, {}, pheight, pcur), FALSE)), df \in DropFails :
          RunStep(finish(M0(k, df, pheight, pcur), FALSE), OkValue("finish_default"))
    /\ branch' = "esc_default"
    /\ vout' = "none"
    /\ UNCHANGED <<lastKey, hide_cursor, checks, termH, events, question, promptVars, has_default, vmode, nvalidate>>

\* (mutant of EnterArm) a validation error is not shown
EnterArm_silent_error(m, o, eh) ==
    CASE o = "Finish" -> finish(m, TRUE)
      [] o = "Continue" -> render(m)
      [] OTHER -> m

\* (mutant of EnterArm) Continue finishes like Finish
EnterArm_finish_on_continue(m, o, eh) ==
    CASE o = "Finish" -> finish(m, TRUE)
      [] o = "Continue" -> finish(m, TRUE)
      [] OTHER -> print_error(m, eh)

\* The arm of run for what validate returned.
EnterArm(m, o, eh) ==
    CASE o = "Finish" -> finish(m, TRUE)
      [] o = "Continue" -> render(m)
      [] OTHER -> print_error(m, eh)

\* (mutant of EnterValue) a validation error returns the value as well
EnterValue_err_returns(o) == IF o \in {"Finish", "Err"} THEN OkValue("finish") ELSE Running

\* What the Enter arm returns from run (Running: it does not return).
EnterValue(o) == IF o = "Finish" THEN OkValue("finish") ELSE Running

\* KeyCode::Enter
KeyEnter ==
    /\ pc = "key"
    /\ Dispatch(lastKey) = "enter"
    /\ \E o \in ValidateOutcomes, ps \in PromptStates, eh \in 1..MaxErrHeight :
          \* only Continue leaves the prompt in a new state to render
          /\ o # "Continue" => ps = [h |-> pheight, cur |-> pcur]
          /\ o # "Err" => eh = 1
          /\ \E k \in FailPoints(EnterArm(Pc(M0(0, {}, ps.h, ps.cur), "validate", 0, 0), o, eh)),
                df \in DropFails :
                RunStep(EnterArm(Pc(M0(k, df, ps.h, ps.cur), "validate", 0, 0), o, eh),
                        EnterValue(o))
          /\ vout' = o
          /\ pheight' = ps.h
          /\ pcur' = ps.cur
    /\ branch' = "enter"
    /\ nvalidate' = IF vmode # "any" /\ nvalidate < 2 THEN nvalidate + 1 ELSE nvalidate
    /\ UNCHANGED <<lastKey, hide_cursor, checks, termH, events, question, has_default, vmode>>

\* (mutant of OtherArm) renders whatever handle_key returned
OtherArm_always_renders(m, key_handled) ==
    render(Pc(m, "handle_key", IF key_handled THEN 1 ELSE 0, 0))

\* `_ => self.prompt.handle_key(e)` and `if key_handled { self.render()? }`
OtherArm(m, key_handled) ==
    LET m1 == Pc(m, "handle_key", IF key_handled THEN 1 ELSE 0, 0)
    IN  IF key_handled THEN render(m1) ELSE m1

KeyOther ==
    /\ pc = "key"
    /\ Dispatch(lastKey) = "other"
    /\ \E key_handled \in BOOLEAN, ps \in PromptStates :
          /\ ~key_handled => ps = [h |-> pheight, cur |-> pcur]
          /\ events.script => ~key_handled     \* the given prompt handles no key
          /\ \E k \in FailPoints(OtherArm(M0(0, {}, ps.h, ps.cur), key_handled)),
                df \in DropFails :
                RunStep(OtherArm(M0(k, df, ps.h, ps.cur), key_handled), Running)
          /\ pheight' = ps.h
          /\ pcur' = ps.cur
    /\ branch' = "other"
    /\ vout' = "none"
    /\ UNCHANGED <<lastKey, hide_cursor, checks, termH, events, question, has_default, vmode, nvalidate>>

\* The terminal is resized while run waits for the next key event.
Resize ==
    /\ pc = "running"
    /\ \E h \in 1..MaxTermH :
          /\ h # termH
          /\ termH' = h
    /\ UNCHANGED <<pc, base_row, size, enabled, hide_cursor, checks, events, question, promptVars, has_default,
                   vmode, nvalidate, log, modeOps, lastKey, branch, vout, errRow, result>>

\* Input::new, with or without hide_cursor(); the prompt and the terminal
\* are the caller's.
InitWith(mode) ==
    /\ pc = "new"
    /\ base_row = 0
    /\ size = 0
    /\ enabled = FALSE
    /\ hide_cursor \in BOOLEAN
    /\ checks \in BOOLEAN
    /\ termH \in 1..MaxTermH
    /\ \E ps \in PromptStates : pheight = ps.h /\ pcur = ps.cur
    /\ has_default \in BOOLEAN
    /\ vmode = mode
    /\ nvalidate = 0
    /\ log = <<>>
    /\ modeOps = <<>>
    /\ lastKey = NoKey
    /\ branch = "none"
    /\ vout = "none"
    /\ errRow = NoRow
    /\ result = Running

Init == InitWith("any") /\ events = NoScript /\ question = NoQuestion

\* The same runner, for a prompt whose validate never accepts as well. What
\* validate returns depends neither on the cursor being hidden nor on the
\* build's overflow checks, which Spec covers: here the cursor is shown and
\* the build checks overflow.
InitValidate ==
    /\ InitWith("any") \/ InitWith("always_err")
    /\ ~hide_cursor /\ checks
    /\ events = NoScript /\ question = NoQuestion

Next ==
    \/ RunInit
    \/ Pull
    \/ PullErr
    \/ PullNone
    \/ KeyCtrlC
    \/ KeyNull
    \/ KeyEscDefault
    \/ KeyEnter
    \/ KeyOther
    \/ Resize

Spec == Init /\ [][Next]_vars

SpecValidate == InitValidate /\ [][Next]_vars

\* ---------------------------------------------------------------- run on a given key sequence
Key(code) == [code |-> code, ctrl |-> FALSE]

\* the key sequences given to run
Scripts ==
    {<<Key("Char_x"), Key("Enter")>>, <<Key("Char_x"), Key("Enter"), Key("Enter")>>}

\* run on one of these sequences, for a prompt that handles no key and whose
\* validate returns an error on its first call and Finish on its second.
InitScript ==
    /\ InitWith("err_then_finish")
    /\ \E l \in Scripts : events = Script(l)
    /\ question = NoQuestion

NextScript ==
    \/ RunInit
    \/ Pull
    \/ PullNone
    \/ KeyEnter
    \/ KeyOther

SpecScript == InitScript /\ [][NextScript]_vars

\* ---------------------------------------------------------------- the guard on its own
\* TerminalState::new, and then its methods init and reset in any order
\* until it is dropped.
InitGuard ==
    /\ pc = "guard"
    /\ enabled = FALSE
    /\ hide_cursor \in BOOLEAN
    /\ checks = TRUE
    /\ base_row = 0
    /\ size = 0
    /\ termH = 1
    /\ pheight = 1
    /\ pcur = <<0, 0>>
    /\ has_default = FALSE
    /\ vmode = "any"
    /\ nvalidate = 0
    /\ log = <<>>
    /\ modeOps = <<>>
    /\ lastKey = NoKey
    /\ branch = "none"
    /\ vout = "none"
    /\ errRow = NoRow
    /\ events = NoScript /\ question = NoQuestion
    /\ result = Running

\* the guard after a method left it as m
GuardStep(m, name) ==
    /\ enabled' = m.enabled
    /\ log' = m.log
    /\ modeOps' = modeOps \o SelectSeq(m.log, IsModeEntry)
    /\ result' = IF m.err # NoErr THEN m.err ELSE OkValue(name)
    /\ UNCHANGED <<base_row, size, hide_cursor, checks, termH, events, question, pheight, pcur,
                   has_default, vmode, nvalidate, lastKey, branch, vout, errRow>>

GuardInit ==
    /\ pc = "guard" /\ Len(modeOps) < MaxGuardOps
    /\ \E k \in FailPoints(TerminalState_init(M0(0, {}, pheight, pcur))) :
          GuardStep(TerminalState_init(M0(k, {}, pheight, pcur)), "init")
    /\ pc' = "guard"

GuardReset ==
    /\ pc = "guard" /\ Len(modeOps) < MaxGuardOps
    /\ \E k \in FailPoints(TerminalState_reset(M0(0, {}, pheight, pcur))) :
          GuardStep(TerminalState_reset(M0(k, {}, pheight, pcur)), "reset")
    /\ pc' = "guard"

GuardDrop ==
    /\ pc = "guard"
    /\ \E df \in DropFails :
          /\ DropSelf(M0(0, df, pheight, pcur), df)
          /\ GuardStep(Drop_drop(M0(0, df, pheight, pcur)), "drop")
    /\ pc' = "dropped"

NextGuard ==
    \/ GuardInit
    \/ GuardReset
    \/ GuardDrop

SpecGuard == InitGuard /\ [][NextGuard]_vars

\* ---------------------------------------------------------------- the row arithmetic on its own
\* An Input in the middle of a run, with any base_row, size and prompt
\* height, on which adjust_scrollback or render is called once. No backend
\* call fails here.
InitScroll ==
    /\ pc = "call"
    /\ base_row \in 0..ScrollMaxRow
    /\ size \in 1..ScrollMaxTermH
    /\ termH = size
    /\ pheight \in 0..ScrollMaxHeight
    /\ checks \in BOOLEAN
    /\ enabled = TRUE
    /\ hide_cursor = FALSE
    /\ pcur = <<0, 0>>
    /\ has_default = FALSE
    /\ vmode = "any"
    /\ nvalidate = 0
    /\ log = <<>>
    /\ modeOps = <<>>
    /\ lastKey = NoKey
    /\ branch = "none"
    /\ vout = "none"
    /\ errRow = NoRow
    /\ events = NoScript /\ question = NoQuestion
    /\ result = Running

\* self.adjust_scrollback(height) with height = pheight; the returned row is
\* result.n, self.base_row stays as it was.
AdjustCall ==
    /\ pc = "call"
    /\ LET m == adjust_scrollback(M0(0, {}, pheight, pcur), pheight)
       IN  /\ pc' = "adjusted"
           /\ log' = m.log
           /\ result' = IF m.err # NoErr THEN m.err
                         ELSE [kind |-> "Ok", op |-> "adjust_scrollback", n |-> m.ret]
    /\ UNCHANGED <<base_row, size, enabled, hide_cursor, checks, termH, events, question, pheight, pcur,
                   has_default, vmode, nvalidate, modeOps, lastKey, branch, vout, errRow>>

\* self.render() for a prompt pheight rows high
RenderCall ==
    /\ pc = "call"
    /\ LET m == render(M0(0, {}, pheight, pcur))
       IN  /\ pc' = "rendered"
           /\ log' = m.log
           /\ base_row' = m.base_row
           /\ size' = m.size
           /\ result' = IF m.err # NoErr THEN m.err ELSE OkValue("render")
    /\ UNCHANGED <<enabled, hide_cursor, checks, termH, events, question, pheight, pcur,
                   has_default, vmode, nvalidate, modeOps, lastKey, branch, vout, errRow>>

NextScroll ==
    \/ AdjustCall
    \/ RenderCall

SpecScroll == InitScroll /\ [][NextScroll]_vars

\* ---------------------------------------------------------------- choice lists
\* Variables of the runner, which stay as they are while a question is
\* built, and while its prompt is looked at on its own.
runnerVars == <<pc, base_row, size, enabled, hide_cursor, checks, termH, pheight, pcur,
                has_default, vmode, nvalidate, log, modeOps, lastKey, branch, vout, errRow,
                events, result>>

\* No runner has been constructed.
NoRunner ==
    /\ pc = "question"
    /\ base_row = 0
    /\ size = 0
    /\ termH = 1
    /\ enabled = FALSE
    /\ hide_cursor = FALSE
    /\ checks = TRUE
    /\ pheight = 1
    /\ pcur = <<0, 0>>
    /\ has_default = FALSE
    /\ vmode = "any"
    /\ nvalidate = 0
    /\ log = <<>>
    /\ modeOps = <<>>
    /\ lastKey = NoKey
    /\ branch = "none"
    /\ vout = "none"
    /\ errRow = NoRow
    /\ events = NoScript
    /\ result = Running

\* Choice<T>: for a raw_select T is (usize, Text), of which i is the usize
Choice(i) == [tag |-> "Choice", i |-> i]
Separator == [tag |-> "Separator", i |-> 0]
DefaultSeparator == [tag |-> "DefaultSeparator", i |-> 0]

\* calling unwrap_choice on c panics
unwrap_choice_panics(c) == c.tag # "Choice"

ChoiceList_default ==
    [choices |-> <<>>, page_size |-> DefaultPageSize, default |-> 0,
     has_default |-> FALSE, should_loop |-> TRUE]

\* indices are 0-based as in the source; sequences here start at 1
ChoiceList_len(l) == Len(l.choices)
ChoiceList_at(l, index) == l.choices[index + 1]

\* the indices ChoiceList::is_selectable holds of: matches!(.., Choice::Choice(_))
ChoiceSelectable(l) ==
    {i \in 0..(ChoiceList_len(l) - 1) : ChoiceList_at(l, i).tag = "Choice"}
\* the indices RawSelect::is_selectable holds of: !is_separator()
RawSelectable(l) ==
    {i \in 0..(ChoiceList_len(l) - 1) :
        ChoiceList_at(l, i).tag \notin {"Separator", "DefaultSeparator"}}

\* ---------------------------------------------------------------- text and numbers
Digits == <<"0", "1", "2", "3", "4", "5", "6", "7", "8", "9">>
is_digit(c) == \E d \in 1..10 : Digits[d] = c

RECURSIVE DigitsValue(_)
DigitsValue(s) ==
    IF s = <<>> THEN 0
    ELSE DigitsValue(SubSeq(s, 1, Len(s) - 1)) * 10
            + (CHOOSE d \in 0..9 : Digits[d + 1] = s[Len(s)])

\* str::parse::<usize>: an optional "+", then one digit at least and digits only
parse_usize(s) ==
    LET body == IF s # <<>> /\ s[1] = "+" THEN Tail(s) ELSE s
    IN  IF body # <<>> /\ \A k \in DOMAIN body : is_digit(body[k])
        THEN [ok |-> TRUE, n |-> DigitsValue(body)]
        ELSE [ok |-> FALSE, n |-> 0]

\* usize::to_string
RECURSIVE to_string(_)
to_string(n) ==
    IF n < 10 THEN <<Digits[n + 1]>> ELSE Append(to_string(n \div 10), Digits[(n % 10) + 1])

\* ---------------------------------------------------------------- the list engine
SetMin(S) == CHOOSE x \in S : \A y \in S : x <= y
SetMax(S) == CHOOSE x \in S : \A y \in S : y <= x

\* (mutant of Select_next) the next index, whether selectable or not
Select_next_any_index(sel, n, loop, at) ==
    IF at + 1 < n THEN at + 1 ELSE IF loop THEN 0 ELSE n - 1

\* Down: the next selectable index, wrapping past the end if the list loops
\* and staying on the last selectable index if it does not.
Select_next(sel, n, loop, at) ==
    IF \E j \in sel : j > at THEN SetMin({j \in sel : j > at})
    ELSE IF loop THEN SetMin(sel) ELSE SetMax(sel)

\* Select::handle_key: the index after the key, and whether it was handled
\* (a key that leaves the index where it is was not). Up moves to the
\* previous selectable index as Down moves to the next.
Select_handle_key(sel, n, loop, at, key) ==
    LET to == IF key.code = "Down" THEN Select_next(sel, n, loop, at)
              ELSE IF key.code = "Up"
              THEN IF \E j \in sel : j < at THEN SetMax({j \in sel : j < at})
                   ELSE IF loop THEN SetMax(sel) ELSE SetMin(sel)
              ELSE at
    IN  [at |-> to, handled |-> to # at]

\* StringInput::handle_key under a filter that lets the characters of
\* `allowed` through: such a character is appended, Backspace removes the
\* last character, nothing else is handled.
StringInput_handle_key(text, key, allowed) ==
    IF key.code = "Char" /\ key.c \in allowed THEN [text |-> Append(text, key.c), handled |-> TRUE]
    ELSE IF key.code = "Backspace" /\ text # <<>>
         THEN [text |-> SubSeq(text, 1, Len(text) - 1), handled |-> TRUE]
    ELSE [text |-> text, handled |-> FALSE]

\* the filter of the answer input of a raw_select: c.is_digit(10)
RawSelect_filter_map == {c \in {Digits[d] : d \in 1..10} : is_digit(c)}

\* ---------------------------------------------------------------- raw_select
ListKey(code, c) == [code |-> code, c |-> c]
NoListKey == ListKey("none", "")

RawSelectBuilder_new ==
    [kind |-> "raw_select", stage |-> "builder", list |-> ChoiceList_default, choice_count |-> 1,
     at |-> 0, text |-> <<>>, key |-> NoListKey, handled |-> FALSE, err |-> NoErr, answer |-> 0]

\* Select::new: the hover starts on the first selectable item; a list
\* without one cannot be asked.
Select_new(q) ==
    IF RawSelectable(q.list) = {}
    THEN [q EXCEPT !.stage = "panic", !.err = PanicErr("no selectable item", 0)]
    ELSE [q EXCEPT !.stage = "prompt", !.at = SetMin(RawSelectable(q.list))]

\* (mutant of NumberedAt) the entry in place n, whatever it is
NumberedAt_by_position(l, n) == {n - 1} \cap (0..(ChoiceList_len(l) - 1))

\* choices[(n - 1)..].iter().position(a Choice whose number is n), as the
\* set of the indices of the whole list where such a Choice is
NumberedAt(l, n) ==
    {k \in (n - 1)..(ChoiceList_len(l) - 1) :
        ChoiceList_at(l, k).tag = "Choice" /\ ChoiceList_at(l, k).i = n}

\* (mutant of RawSelectPrompt_handle_key) an edit that names no Choice leaves
\* the hover where it is
RawSelectPrompt_handle_key_keeps_hover(q, key) ==
    LET input == StringInput_handle_key(q.text, key, RawSelect_filter_map)
        len == ChoiceList_len(q.list)
        q1 == [q EXCEPT !.key = key]
    IN  IF input.handled
        THEN LET n == parse_usize(input.text)
                 typed == [q1 EXCEPT !.text = input.text, !.handled = TRUE]
             IN  IF n.ok /\ n.n <= len /\ n.n > 0 /\ NumberedAt(q.list, n.n) # {}
                 THEN [typed EXCEPT !.at = SetMin(NumberedAt(q.list, n.n))]
                 ELSE typed
        ELSE LET select == Select_handle_key(RawSelectable(q.list), len, q.list.should_loop,
                                             q.at, key)
             IN  IF select.handled
                 THEN IF unwrap_choice_panics(ChoiceList_at(q.list, select.at))
                      THEN [q1 EXCEPT !.stage = "panic", !.at = select.at,
                                      !.err = PanicErr("Called unwrap_choice on separator", select.at)]
                      ELSE [q1 EXCEPT !.at = select.at, !.handled = TRUE,
                                      !.text = to_string(ChoiceList_at(q.list, select.at).i)]
                 ELSE [q1 EXCEPT !.handled = FALSE]

\* (mutant of RawSelectPrompt_handle_key) after a navigation key the input
\* takes the list index of the hover instead of the number of its Choice
RawSelectPrompt_handle_key_index_text(q, key) ==
    LET input == StringInput_handle_key(q.text, key, RawSelect_filter_map)
        len == ChoiceList_len(q.list)
        q1 == [q EXCEPT !.key = key]
    IN  IF input.handled
        THEN LET n == parse_usize(input.text)
                 typed == [q1 EXCEPT !.text = input.text, !.handled = TRUE]
             IN  IF n.ok /\ n.n <= len /\ n.n > 0 /\ NumberedAt(q.list, n.n) # {}
                 THEN [typed EXCEPT !.at = SetMin(NumberedAt(q.list, n.n))]
                 ELSE [typed EXCEPT !.at = len + 1]
        ELSE LET select == Select_handle_key(RawSelectable(q.list), len, q.list.should_loop,
                                             q.at, key)
             IN  IF select.handled
                 THEN IF unwrap_choice_panics(ChoiceList_at(q.list, select.at))
                      THEN [q1 EXCEPT !.stage = "panic", !.at = select.at,
                                      !.err = PanicErr("Called unwrap_choice on separator", select.at)]
                      ELSE [q1 EXCEPT !.at = select.at, !.handled = TRUE,
                                      !.text = to_string(select.at)]
                 ELSE [q1 EXCEPT !.handled = FALSE]

\* select.set_at(at) stores at as it is
RawSelectPrompt_handle_key(q, key) ==
    LET input == StringInput_handle_key(q.text, key, RawSelect_filter_map)
        len == ChoiceList_len(q.list)
        q1 == [q EXCEPT !.key = key]
    IN  IF input.handled
        THEN LET n == parse_usize(input.text)
                 typed == [q1 EXCEPT !.text = input.text, !.handled = TRUE]
             IN  IF n.ok /\ n.n <= len /\ n.n > 0 /\ NumberedAt(q.list, n.n) # {}
                 THEN [typed EXCEPT !.at = SetMin(NumberedAt(q.list, n.n))]
                 ELSE [typed EXCEPT !.at = len + 1]
        ELSE LET select == Select_handle_key(RawSelectable(q.list), len, q.list.should_loop,
                                             q.at, key)
             IN  IF select.handled
                 THEN IF unwrap_choice_panics(ChoiceList_at(q.list, select.at))
                      THEN [q1 EXCEPT !.stage = "panic", !.at = select.at,
                                      !.err = PanicErr("Called unwrap_choice on separator", select.at)]
                      ELSE [q1 EXCEPT !.at = select.at, !.handled = TRUE,
                                      !.text = to_string(ChoiceList_at(q.list, select.at).i)]
                 ELSE [q1 EXCEPT !.handled = FALSE]

RawSelectPrompt_validate(q) ==
    IF q.at >= ChoiceList_len(q.list) THEN "Please enter a valid choice" ELSE "Finish"

\* finish_index: swap_remove(index).unwrap_choice()
RawSelectPrompt_finish(q) ==
    IF unwrap_choice_panics(ChoiceList_at(q.list, q.at))
    THEN [q EXCEPT !.stage = "panic", !.err = PanicErr("Called unwrap_choice on separator", q.at)]
    ELSE [q EXCEPT !.stage = "done", !.answer = q.at]

\* ---------------------------------------------------------------- building and asking
Building(kind) == question.kind = kind /\ question.stage = "builder"
To(q) == question' = q /\ UNCHANGED runnerVars

\* choices.push(Choice::Choice((choice_count, text))); choice_count += 1
RawSelectBuilder_choice ==
    /\ Building("raw_select") /\ ChoiceList_len(question.list) < MaxChoices
    /\ To([question EXCEPT !.list.choices = Append(@, Choice(question.choice_count)),
                           !.choice_count = @ + 1])

RawSelectBuilder_separator ==
    /\ Building("raw_select") /\ ChoiceList_len(question.list) < MaxChoices
    /\ To([question EXCEPT !.list.choices = Append(@, Separator)])

RawSelectBuilder_default_separator ==
    /\ Building("raw_select") /\ ChoiceList_len(question.list) < MaxChoices
    /\ To([question EXCEPT !.list.choices = Append(@, DefaultSeparator)])

\* choices.extend(..): every Choice of the iterator takes the next number
\* (choice_count, then choice_count += 1), a separator is kept as it is
RawSelectBuilder_choices ==
    /\ Building("raw_select")
    /\ \E k \in 1..(MaxChoices - ChoiceList_len(question.list)) :
       \E choices \in [1..k -> {"Choice", "Separator", "DefaultSeparator"}] :
          LET before(j) == Cardinality({h \in 1..(j - 1) : choices[h] = "Choice"})
              numbered == [j \in 1..k |->
                              IF choices[j] = "Choice" THEN Choice(question.choice_count + before(j))
                              ELSE [tag |-> choices[j], i |-> 0]]
          IN  To([question EXCEPT !.list.choices = @ \o numbered,
                                  !.choice_count = @ + before(k + 1)])

\* choices.set_default(default): the index is stored as it is
RawSelectBuilder_default ==
    /\ Building("raw_select")
    /\ \E default \in 0..MaxDefault :
          To([question EXCEPT !.list.default = default, !.list.has_default = TRUE])

\* assert!(page_size >= 5); choices.set_page_size(page_size)
RawSelectBuilder_page_size ==
    /\ Building("raw_select")
    /\ \E page_size \in (MinPageSize - 1)..MaxPageSize :
          IF ~(page_size >= MinPageSize)
          THEN To([question EXCEPT !.stage = "panic",
                      !.err = PanicErr("page size can be a minimum of 5", page_size)])
          ELSE To([question EXCEPT !.list.page_size = page_size])

RawSelectBuilder_should_loop ==
    /\ Building("raw_select")
    /\ \E should_loop \in BOOLEAN : To([question EXCEPT !.list.should_loop = should_loop])

\* Question::new(opts, QuestionKind::RawSelect(raw_select))
RawSelectBuilder_build ==
    /\ Building("raw_select")
    /\ To([question EXCEPT !.stage = "question"])

\* RawSelect::ask up to the prompt it hands to the runner: Select::new, and
\* select.set_at(default) if the list has a default
RawSelect_into_prompt ==
    /\ question.kind = "raw_select" /\ question.stage = "question"
    /\ LET select == Select_new(question)
       IN  IF select.err = NoErr /\ select.list.has_default
           THEN To([select EXCEPT !.at = select.list.default])
           ELSE To(select)

\* ---------------------------------------------------------------- expand
\* Option<T>
None == [some |-> FALSE, n |-> 0]
Some(n) == [some |-> TRUE, n |-> n]

\* the characters given to the builder and typed at the prompt
Chars == {"a", "A", "b", "B", "h", "H"}

\* char::to_ascii_lowercase
to_ascii_lowercase(c) ==
    CASE c = "A" -> "a" [] c = "B" -> "b" [] c = "H" -> "h" [] OTHER -> c

\* Question::expand: Expand::default() (default 'h', nothing selected) and
\* no key taken. An item of the list is [tag |-> "Choice", key |-> its key].
\* value, expanded, at and allowed are the fields of the prompt made by ask.
ExpandBuilder_new ==
    [kind |-> "expand", stage |-> "builder", list |-> ChoiceList_default, keys |-> {},
     default |-> "h", selected |-> None, value |-> None, expanded |-> FALSE, at |-> 0,
     allowed |-> {}, key |-> NoListKey, handled |-> FALSE, validation |-> "none",
     err |-> NoErr, answer |-> 0]

\* the key is lowercased, refused if it is 'h' or taken, and the item is
\* pushed with the lowercased key
ExpandBuilder_choice ==
    /\ Building("expand") /\ ChoiceList_len(question.list) < MaxChoices
    /\ \E c \in Chars :
          LET key == to_ascii_lowercase(c) IN
          IF key = "h"
          THEN To([question EXCEPT !.stage = "panic", !.err = PanicErr("Reserved key 'h'", 0)])
          ELSE IF key \in question.keys
          THEN To([question EXCEPT !.stage = "panic", !.err = PanicErr("Duplicate key", 0)])
          ELSE To([question EXCEPT !.keys = @ \cup {key},
                                   !.list.choices = Append(@, [tag |-> "Choice", key |-> key])])

\* choices.extend(..inspect(..)): the lowercased key of every Choice is
\* checked and recorded, and the item is pushed as it was given ("-" stands
\* for a separator)
ExpandBuilder_choices ==
    /\ Building("expand")
    /\ \E k \in 1..(MaxChoices - ChoiceList_len(question.list)) :
       \E choices \in [1..k -> Chars \cup {"-"}] :
          LET key(j) == to_ascii_lowercase(choices[j])
              reserved(j) == choices[j] # "-" /\ key(j) = "h"
              duplicate(j) == /\ choices[j] # "-"
                              /\ \/ key(j) \in question.keys
                                 \/ \E h \in 1..(j - 1) : choices[h] # "-" /\ key(h) = key(j)
              bad == {j \in 1..k : reserved(j) \/ duplicate(j)}
          IN  IF bad # {}
              THEN To([question EXCEPT !.stage = "panic",
                          !.err = PanicErr(IF reserved(SetMin(bad)) THEN "Reserved key 'h'"
                                           ELSE "Duplicate key", 0)])
              ELSE To([question EXCEPT
                          !.keys = @ \cup {key(j) : j \in {h \in 1..k : choices[h] # "-"}},
                          !.list.choices = @ \o [j \in 1..k |->
                              IF choices[j] = "-" THEN Separator
                              ELSE [tag |-> "Choice", key |-> choices[j]]]])

\* self.expand.default = default
ExpandBuilder_default ==
    /\ Building("expand")
    /\ \E default \in Chars : To([question EXCEPT !.default = default])

\* CharInput::handle_key under the filter of ask (lowercase the character,
\* keep it if `choices` contains it): a character the filter lets through
\* becomes the value, Backspace empties it, nothing else is handled.
CharInput_handle_key(value, key, allowed) ==
    IF key.code = "Char" /\ to_ascii_lowercase(key.c) \in allowed
    THEN [value |-> Some(to_ascii_lowercase(key.c)), handled |-> TRUE]
    ELSE IF key.code = "Backspace" /\ value.some THEN [value |-> None, handled |-> TRUE]
    ELSE [value |-> value, handled |-> FALSE]

\* ExpandPrompt::handle_key; the list of an expand has one more item than
\* its choices (the help item) and every index is selectable
ExpandPrompt_handle_key(q, key) ==
    LET input == CharInput_handle_key(q.value, key, q.allowed)
        q1 == [q EXCEPT !.key = key, !.validation = "none"]
    IN  IF input.handled
        THEN [q1 EXCEPT !.value = input.value, !.selected = input.value, !.handled = TRUE]
        ELSE IF q.expanded
        THEN LET len == ChoiceList_len(q.list) + 1
                 list == Select_handle_key(0..(len - 1), len, q.list.should_loop, q.at, key)
             IN  [q1 EXCEPT !.at = list.at, !.handled = list.handled]
        ELSE [q1 EXCEPT !.handled = FALSE]

\* (mutant of ExpandPrompt_validate) 'h' expands the list and keeps the input
ExpandPrompt_validate_keeps_input(q) ==
    IF (IF q.value.some THEN q.value.n ELSE q.default) = "h"
    THEN [q EXCEPT !.expanded = TRUE, !.validation = "Continue"]
    ELSE [q EXCEPT !.validation = "Finish"]

\* ExpandPrompt::validate
ExpandPrompt_validate(q) ==
    IF (IF q.value.some THEN q.value.n ELSE q.default) = "h"
    THEN [q EXCEPT !.expanded = TRUE, !.value = None, !.selected = None,
                   !.validation = "Continue"]
    ELSE [q EXCEPT !.validation = "Finish"]

\* ExpandPrompt::finish_with: the first Choice whose key is c, unwrapped
ExpandPrompt_finish_with(q, c) ==
    LET found == {j \in 0..(ChoiceList_len(q.list) - 1) :
                     ChoiceList_at(q.list, j).tag = "Choice" /\ ChoiceList_at(q.list, j).key = c}
    IN  IF found = {}
        THEN [q EXCEPT !.stage = "panic",
                       !.err = PanicErr("called Option::unwrap() on a None value", 0)]
        ELSE [q EXCEPT !.stage = "done", !.answer = SetMin(found)]

\* choices.set_page_size(page_size)
ExpandBuilder_page_size ==
    /\ Building("expand")
    /\ \E page_size \in (MinPageSize - 1)..MaxPageSize :
          To([question EXCEPT !.list.page_size = page_size])

ExpandBuilder_build ==
    /\ Building("expand")
    /\ To([question EXCEPT !.stage = "question"])

\* Expand::ask: the characters the input lets through are the lowercased
\* keys of the choices and 'h'; the session starts with the list as built
Expand_ask ==
    /\ question.kind = "expand" /\ question.stage = "question"
    /\ LET choices == {to_ascii_lowercase(ChoiceList_at(question.list, j).key) :
                          j \in ChoiceSelectable(question.list)} \cup {"h"}
       IN  To([question EXCEPT !.stage = "prompt", !.allowed = choices])

\* a key other than Enter and Escape reaches the prompt's handle_key
ExpandKey ==
    /\ question.kind = "expand" /\ question.stage = "prompt"
    /\ \E key \in {ListKey("Char", c) : c \in Chars \cup {"x"}}
                     \cup {ListKey("Backspace", ""), ListKey("Down", ""), ListKey("Up", "")} :
          To(ExpandPrompt_handle_key(question, key))

\* Enter: validate, and finish (with the value, or the default when there is
\* none) if it says Finish
ExpandEnter ==
    /\ question.kind = "expand" /\ question.stage = "prompt"
    /\ LET q == ExpandPrompt_validate([question EXCEPT !.key = ListKey("Enter", ""),
                                                       !.handled = FALSE])
       IN  IF q.validation = "Finish"
           THEN To(ExpandPrompt_finish_with(q, IF q.value.some THEN q.value.n ELSE q.default))
           ELSE To(q)

\* Escape: finish_default if has_default (the default is not 'h'), else the
\* key goes to handle_key
ExpandEsc ==
    /\ question.kind = "expand" /\ question.stage = "prompt"
    /\ IF question.default # "h"
       THEN To(ExpandPrompt_finish_with([question EXCEPT !.key = ListKey("Esc", ""),
                                                         !.handled = FALSE, !.validation = "none"],
                                        question.default))
       ELSE To(ExpandPrompt_handle_key(question, ListKey("Esc", "")))

\* a key other than Enter reaches the prompt's handle_key
RawSelectKey ==
    /\ question.kind = "raw_select" /\ question.stage = "prompt"
    /\ \E key \in {ListKey("Char", Digits[d + 1]) : d \in 0..MaxDigit}
                     \cup {ListKey("Char", "x"), ListKey("Backspace", ""),
                           ListKey("Down", ""), ListKey("Up", "")} :
          /\ (key.code = "Char" /\ is_digit(key.c)) => Len(question.text) < MaxText
          /\ To(RawSelectPrompt_handle_key(question, key))

\* Enter: validate, and finish if it accepts
RawSelectEnter ==
    /\ question.kind = "raw_select" /\ question.stage = "prompt"
    /\ LET q == [question EXCEPT !.key = ListKey("Enter", "")]
       IN  IF RawSelectPrompt_validate(q) = "Finish"
           THEN To(RawSelectPrompt_finish(q))
           ELSE To([q EXCEPT !.handled = FALSE])

\* RawSelectBuilder::new, or Question::expand
InitList ==
    /\ NoRunner
    /\ question \in {RawSelectBuilder_new, ExpandBuilder_new}

NextList ==
    \/ RawSelectBuilder_choice
    \/ RawSelectBuilder_separator
    \/ RawSelectBuilder_default_separator
    \/ RawSelectBuilder_choices
    \/ RawSelectBuilder_default
    \/ RawSelectBuilder_page_size
    \/ RawSelectBuilder_should_loop
    \/ RawSelectBuilder_build
    \/ RawSelect_into_prompt
    \/ ExpandBuilder_choice
    \/ ExpandBuilder_choices
    \/ ExpandBuilder_default
    \/ ExpandBuilder_page_size
    \/ ExpandBuilder_build
    \/ Expand_ask
    \/ ExpandKey
    \/ ExpandEnter
    \/ ExpandEsc
    \/ RawSelectKey
    \/ RawSelectEnter

SpecList == InitList /\ [][NextList]_vars

\* ---------------------------------------------------------------- int prompts
\* Int::filter_map: the characters the input of an int prompt takes
Int_filter_map == {c \in {Digits[d] : d \in 1..10} \cup {"-", "+", "x"} : is_digit(c) \/ c = "-" \/ c = "+"}

\* str::parse::<i64>: an optional sign, then one digit at least and digits
\* only (a value of a few digits always fits)
parse_i64(s) ==
    LET signed == s # <<>> /\ s[1] \in {"+", "-"}
        body == IF signed THEN Tail(s) ELSE s
        v == IF signed /\ s[1] = "-" THEN 0 - DigitsValue(body) ELSE DigitsValue(body)
    IN  IF body # <<>> /\ (\A k \in DOMAIN body : is_digit(body[k]))
        THEN [ok |-> TRUE, n |-> v]
        ELSE [ok |-> FALSE, n |-> 0]

\* write!(s, "{}", n) for an i64
i64_to_string(n) == IF n < 0 THEN <<"-">> \o to_string(0 - n) ELSE to_string(n)

\* Validate<i64>::Sync: a function that rejects negative numbers
\* ("is_positive"), or one that rejects every number ("never")
validate_fn(which, n) == IF which = "is_positive" THEN n >= 0 ELSE FALSE

\* Filter<i64>::Sync: the function n + 1 ("succ")
filter_fn(which, n) == n + 1

IntBuilder_new ==
    [kind |-> "int", stage |-> "builder", default |-> None, validate |-> "None",
     filter |-> "None", text |-> <<>>, key |-> NoListKey, handled |-> FALSE,
     validated |-> <<>>, filtered |-> <<>>, validation |-> "none", answer |-> None,
     err |-> NoErr]

\* i.wrapping_add(delta); a text of a few characters keeps every number far
\* inside the range of an i64, where it is the sum
Int_delta(i, delta) == i + delta

IntPrompt_handle_key(q, key) ==
    LET input == StringInput_handle_key(q.text, key, Int_filter_map)
        n == parse_i64(q.text)
        moved == IF ~n.ok THEN None
                 ELSE IF key.code = "PageUp" THEN Some(Int_delta(n.n, 10))
                 ELSE IF key.code = "PageDown" THEN Some(Int_delta(n.n, -10))
                 ELSE IF key.code = "Up" THEN Some(Int_delta(n.n, 1))
                 ELSE IF key.code = "Down" THEN Some(Int_delta(n.n, -1))
                 ELSE None
        q1 == [q EXCEPT !.key = key]
    IN  IF input.handled THEN [q1 EXCEPT !.text = input.text, !.handled = TRUE]
        ELSE IF moved.some THEN [q1 EXCEPT !.text = i64_to_string(moved.n), !.handled = TRUE]
        ELSE [q1 EXCEPT !.handled = FALSE]

\* (mutant of IntPrompt_validate) the default is validated like typed text
IntPrompt_validate_validates_default(q) ==
    LET n == IF q.text = <<>> /\ q.default.some THEN [ok |-> TRUE, n |-> q.default.n]
             ELSE parse_i64(q.text)
    IN  IF ~n.ok THEN [q EXCEPT !.validation = "Err(parse)"]
        ELSE IF q.validate # "None"
        THEN LET called == [q EXCEPT !.validated = Append(@, n.n)]
             IN  IF validate_fn(q.validate, n.n) THEN [called EXCEPT !.validation = "Finish"]
                 ELSE [called EXCEPT !.validation = "Err(validate)"]
        ELSE [q EXCEPT !.validation = "Finish"]

\* validate: `validated` are the numbers this call gave to the user's validate
IntPrompt_validate(q) ==
    IF q.text = <<>> /\ q.default.some THEN [q EXCEPT !.validation = "Finish"]
    ELSE LET n == parse_i64(q.text)
         IN  IF ~n.ok THEN [q EXCEPT !.validation = "Err(parse)"]
             ELSE IF q.validate # "None"
             THEN LET called == [q EXCEPT !.validated = Append(@, n.n)]
                  IN  IF validate_fn(q.validate, n.n)
                      THEN [called EXCEPT !.validation = "Finish"]
                      ELSE [called EXCEPT !.validation = "Err(validate)"]
             ELSE [q EXCEPT !.validation = "Finish"]

\* finish: `filtered` are the numbers the user's filter was called with
IntPrompt_finish(q) ==
    LET n == IF q.default.some /\ q.text = <<>> THEN [ok |-> TRUE, n |-> q.default.n]
             ELSE parse_i64(q.text)
    IN  IF ~n.ok
        THEN [q EXCEPT !.stage = "panic",
                       !.err = PanicErr("Validation would fail if number cannot be parsed", 0)]
        ELSE IF q.filter # "None"
        THEN [q EXCEPT !.stage = "done", !.filtered = Append(@, n.n),
                       !.answer = Some(filter_fn(q.filter, n.n))]
        ELSE [q EXCEPT !.stage = "done", !.answer = Some(n.n)]

IntBuilder_default ==
    /\ Building("int")
    /\ \E default \in (0 - MaxDefault)..MaxDefault :
          To([question EXCEPT !.default = Some(default)])

IntBuilder_validate ==
    /\ Building("int")
    /\ \E which \in {"is_positive", "never"} : To([question EXCEPT !.validate = which])

IntBuilder_filter ==
    /\ Building("int")
    /\ To([question EXCEPT !.filter = "succ"])

IntBuilder_build ==
    /\ Building("int")
    /\ To([question EXCEPT !.stage = "question"])

\* Int::ask, up to the prompt it hands to the runner
Int_into_prompt ==
    /\ question.kind = "int" /\ question.stage = "question"
    /\ To([question EXCEPT !.stage = "prompt"])

\* a key other than Enter reaches the prompt's handle_key
IntKey ==
    /\ question.kind = "int" /\ question.stage = "prompt"
    /\ \E key \in {ListKey("Char", c) :
                      c \in {Digits[d + 1] : d \in 0..MaxDigit} \cup {"-", "+", "x"}}
                     \cup {ListKey(code, "") :
                              code \in {"Backspace", "Up", "Down", "PageUp", "PageDown"}} :
          LET q == IntPrompt_handle_key(question, key)
          IN  /\ Len(q.text) <= MaxText
              /\ To([q EXCEPT !.validation = "none", !.validated = <<>>])

\* Enter: validate, and finish if it accepts
IntEnter ==
    /\ question.kind = "int" /\ question.stage = "prompt"
    /\ LET q == IntPrompt_validate([question EXCEPT !.key = ListKey("Enter", ""),
                                                    !.validated = <<>>])
       IN  IF q.validation = "Finish" THEN To(IntPrompt_finish(q)) ELSE To(q)

InitNumber ==
    /\ NoRunner
    /\ question = IntBuilder_new

NextNumber ==
    \/ IntBuilder_default
    \/ IntBuilder_validate
    \/ IntBuilder_filter
    \/ IntBuilder_build
    \/ Int_into_prompt
    \/ IntKey
    \/ IntEnter

SpecNumber == InitNumber /\ [][NextNumber]_vars

\* ---------------------------------------------------------------- layouts
\* A layout is the width of the rectangle, the column the next character
\* goes to (line_offset) and the row, counted from the first row of the
\* widget (offset_y).

\* Writing n characters to the backend from where the layout stands: a
\* character that finds its line full goes to the start of the next line.
RECURSIVE Written(_, _)
Written(layout, n) ==
    IF n = 0 THEN layout
    ELSE Written(IF layout.line_offset >= layout.width
                 THEN [layout EXCEPT !.line_offset = 1, !.offset_y = @ + 1]
                 ELSE [layout EXCEPT !.line_offset = @ + 1],
                 n - 1)

\* render of widgets::Prompt and of widgets::StringInput, which write n
\* characters: the layout it leaves and the rows it wrote into
Text_render(layout, n) ==
    LET after == Written(layout, n)
    IN  [layout |-> after, rows |-> after.offset_y - layout.offset_y + 1]

\* height of widgets::Prompt and of widgets::StringInput: the rows it
\* declares and the layout it leaves, computed without writing
Text_height(layout, n) ==
    IF layout.line_offset + n <= layout.width
    THEN [layout |-> [layout EXCEPT !.line_offset = @ + n], rows |-> 1]
    ELSE LET rest == n - (layout.width - layout.line_offset)
             lines == (rest + layout.width - 1) \div layout.width
         IN  [layout |-> [layout EXCEPT !.line_offset = ((rest - 1) % layout.width) + 1,
                                        !.offset_y = @ + lines],
              rows |-> 1 + lines]

\* self.prompt.render(layout, b)?; self.input.render(layout, b)
IntPrompt_render(layout, prompt, value) ==
    LET p == Text_render(layout, prompt)
        i == Text_render(p.layout, value)
    IN  [called |-> TRUE, layout |-> i.layout,
         rows |-> i.layout.offset_y - layout.offset_y + 1]

\* (mutant of IntPrompt_height) the two heights added up
IntPrompt_height_sum(layout, prompt, value) ==
    LET p == Text_height(layout, prompt)
        i == Text_height(p.layout, value)
    IN  [called |-> TRUE, layout |-> i.layout, rows |-> p.rows + i.rows]

\* self.prompt.height(layout) + self.input.height(layout) - 1
IntPrompt_height(layout, prompt, value) ==
    LET p == Text_height(layout, prompt)
        i == Text_height(p.layout, value)
    IN  [called |-> TRUE, layout |-> i.layout, rows |-> p.rows + i.rows - 1]

\* A number prompt and the layout it is given.
InitLayout ==
    /\ NoRunner
    /\ \E width \in 2..MaxWidth : \E line_offset \in 0..(width - 1) :
       \E prompt \in 1..MaxPrompt : \E value \in 0..MaxValue :
          question = [kind |-> "layout",
                      layout |-> [width |-> width, line_offset |-> line_offset, offset_y |-> 0],
                      prompt |-> prompt, value |-> value,
                      height |-> [called |-> FALSE], render |-> [called |-> FALSE]]

\* prompt.height(&mut layout) on a copy of the layout
HeightCall ==
    /\ question.kind = "layout" /\ ~question.height.called
    /\ To([question EXCEPT !.height =
             IntPrompt_height(question.layout, question.prompt, question.value)])

\* prompt.render(&mut layout, &mut backend) on a copy of the layout
RenderOnLayout ==
    /\ question.kind = "layout" /\ ~question.render.called
    /\ To([question EXCEPT !.render =
             IntPrompt_render(question.layout, question.prompt, question.value)])

NextLayout ==
    \/ HeightCall
    \/ RenderOnLayout

SpecLayout == InitLayout /\ [][NextLayout]_vars

\* ---------------------------------------------------------------- moving through a list
\* A list of at least one Choice, numbered from 1 in their order as a
\* builder numbers them, with the hover on any of its Choices.
InitWrap ==
    /\ NoRunner
    /\ \E n \in 1..MaxChoices :
       \E tags \in [1..n -> {"Choice", "Separator", "DefaultSeparator"}] :
       \E should_loop \in BOOLEAN :
          LET choices == [k \in 1..n |->
                             IF tags[k] = "Choice"
                             THEN Choice(Cardinality({j \in 1..k : tags[j] = "Choice"}))
                             ELSE IF tags[k] = "Separator" THEN Separator
                             ELSE DefaultSeparator]
              list == [ChoiceList_default EXCEPT !.choices = choices,
                                                 !.should_loop = should_loop]
          IN  \E start \in ChoiceSelectable(list) :
                 question = [kind |-> "select", stage |-> "prompt", list |-> list,
                             at |-> start, start |-> start, moves |-> 0, handled |-> FALSE]

\* Down, once for each Choice of the list at most
WrapDown ==
    /\ question.kind = "select"
    /\ question.moves < Cardinality(ChoiceSelectable(question.list))
    /\ LET select == Select_handle_key(ChoiceSelectable(question.list),
                                       ChoiceList_len(question.list),
                                       question.list.should_loop, question.at,
                                       ListKey("Down", ""))
       IN  To([question EXCEPT !.at = select.at, !.handled = select.handled,
                               !.moves = @ + 1])

SpecWrap == InitWrap /\ [][WrapDown]_vars

\* ---------------------------------------------------------------- properties
Idx == DOMAIN log
Failed(i) == log[i].kind = "backend" /\ ~log[i].ok
Called(name) == \E i \in Idx : log[i].op = name
\* some backend call made by run itself (not by the drop of the guard) failed
RunFailed == \E i \in Idx : log[i].by = "run" /\ Failed(i)
ReleaseOps == {"reset", "set_enabled", "show_cursor", "disable_raw_mode"}

\* C1: whenever run has returned (in any way, after init began), a
\* disable_raw_mode was issued after the enable_raw_mode that put the
\* terminal in raw mode, and a show_cursor was issued after the hide_cursor
\* that hid the cursor.
C1_TerminalRestored ==
    pc = "done" =>
        /\ \A i \in DOMAIN modeOps : modeOps[i].op = "enable_raw_mode" /\ modeOps[i].ok =>
              \E j \in DOMAIN modeOps : j > i /\ modeOps[j].op = "disable_raw_mode"
        /\ \A i \in DOMAIN modeOps : modeOps[i].op = "hide_cursor" /\ modeOps[i].ok =>
              \E j \in DOMAIN modeOps : j > i /\ modeOps[j].op = "show_cursor"

\* C2: once run has returned the guard is not enabled and its reset has
\* run, by run itself or by the drop; and when the guard is dropped while
\* still enabled (its reset is run by the drop), run had failed and what the
\* caller sees is the failure that made run return, never an error of a
\* call made by the release.
C2_ReleaseErrorSwallowed ==
    /\ pc = "done" => ~enabled /\ \E i \in DOMAIN modeOps : modeOps[i].op = "reset"
    /\ (\E i \in Idx : log[i].by = "drop") =>
        /\ pc = "done"
        /\ ~enabled
        /\ \E i \in Idx : log[i].by = "drop" /\ log[i].op = "reset"
        /\ result.kind \in {"Io", "Panic"}
        /\ \A i \in Idx : log[i].by = "drop" /\ Failed(i) => result # IoErr(log[i].op, log[i].n)
        /\ \/ \E i \in Idx : log[i].by = "run" /\ Failed(i) /\ result = IoErr(log[i].op, log[i].n)
           \/ result = IoErr("events.next", 0)
           \/ result.kind = "Panic"

\* C2 witness: run failed on a backend call, the drop released the guard
\* and a call of the release failed too.
C2_Witness ==
    /\ pc = "done"
    /\ RunFailed
    /\ \E i \in Idx : log[i].by = "drop" /\ Failed(i)

\* C3: when a backend call made by run fails, or the pull of a key event
\* fails, run returns exactly that Io error, and every later call is one made
\* by the release of the guard in its drop: no retry, no other backend call.
C3_IoFailurePropagates ==
    /\ \A i \in Idx : log[i].by = "run" /\ Failed(i) =>
          /\ pc = "done"
          /\ result = IoErr(log[i].op, log[i].n)
          /\ \A j \in Idx : j > i => log[j].by = "drop" /\ log[j].op \in ReleaseOps
    /\ branch = "pull_err" =>
          /\ pc = "done"
          /\ result = IoErr("events.next", 0)
          /\ \A j \in Idx : log[j].by = "drop" /\ log[j].op \in ReleaseOps

\* C3 witness: the error display failed in the middle and the drop released
\* the guard afterwards.
C3_Witness ==
    /\ pc = "done"
    /\ \E i \in Idx : /\ log[i].by = "run" /\ Failed(i) /\ log[i].op = "write_all"
                      /\ \E j \in Idx : j > i /\ log[j].op = "disable_raw_mode"

\* The names of the calls of the current step, in order.
OpsOf(l) == [i \in DOMAIN l |-> l[i].op]
ResetOps == IF hide_cursor THEN <<"reset", "set_enabled", "show_cursor", "disable_raw_mode">>
            ELSE <<"reset", "set_enabled", "disable_raw_mode">>
PromptDecisionCalls == {"validate", "handle_key", "finish", "finish_default"}

\* The exit sequence was carried out: the cursor was put at column 0 of the
\* row just past the prompt (in u16 arithmetic) and the guard was released
\* by run.
ExitSequenceDone ==
    /\ \E i \in Idx : /\ log[i].op = "move_cursor_to" /\ log[i].ok
                      /\ log[i].a = 0 /\ log[i].b = Wrap(base_row + pheight)
                      /\ \E j \in Idx : j > i /\ log[j].op = "reset" /\ log[j].by = "run"
    /\ ~enabled

\* C4: a Ctrl-C read while Running (and no backend call failing, which is
\* C3's case) makes run carry out the exit sequence and return Interrupted,
\* with no call of validate, handle_key, finish or finish_default.
C4_CtrlCInterrupts ==
    /\ lastKey = [code |-> "Char_c", ctrl |-> TRUE] /\ branch # "none" => branch = "ctrl_c"
    /\ branch = "ctrl_c" => \A i \in Idx : log[i].op \notin PromptDecisionCalls
    /\ branch = "ctrl_c" /\ ~RunFailed =>
          /\ pc = "done"
          /\ result = Interrupted
          /\ ExitSequenceDone

\* C5: the Null key read while Running (no backend call failing) makes run
\* carry out the same exit sequence and return Eof, which is neither
\* Interrupted nor a value.
C5_NullIsEof ==
    /\ lastKey.code = "Null" /\ branch # "none" => branch = "null"
    /\ branch = "null" => \A i \in Idx : log[i].op \notin PromptDecisionCalls
    /\ branch = "null" /\ ~RunFailed =>
          /\ pc = "done"
          /\ result = Eof
          /\ result # Interrupted /\ result.kind # "Ok"
          /\ ExitSequenceDone

\* C6: when the event sequence is exhausted while Running, run carries out
\* the exit sequence and returns Eof.
C6_ExhaustedIsEof ==
    branch = "pull_none" =>
        /\ pc = "done"
        /\ result = Eof
        /\ \E j \in Idx : log[j].op = "reset" /\ log[j].by = "run"

\* C7: the prompt's finish is called only for an Enter whose validate
\* returned Finish; for such an Enter (no backend call failing) run calls
\* validate, clears the region from (0, base_row), releases the guard, calls
\* finish and returns its value; after Continue or an error, or on another
\* key, finish is not called.
C7_FinishOnlyOnValidatedEnter ==
    /\ Called("finish") =>
          /\ lastKey.code = "Enter" /\ branch = "enter" /\ vout = "Finish"
          /\ pc = "done" /\ result = OkValue("finish")
    /\ branch = "enter" /\ vout = "Finish" /\ ~RunFailed =>
          /\ pc = "done"
          /\ result = OkValue("finish")
          /\ OpsOf(log) = <<"validate", "move_cursor_to", "clear">> \o ResetOps \o <<"finish">>
          /\ log[2].a = 0 /\ log[2].b = base_row
          /\ ~enabled
    /\ branch # "none" /\ ~(branch = "enter" /\ vout = "Finish") => ~Called("finish")

\* C7 witness: an Enter was validated with Finish and run returned the value.
C7_Witness ==
    /\ pc = "done" /\ lastKey.code = "Enter" /\ vout = "Finish"
    /\ Called("finish") /\ result = OkValue("finish")

\* C8: when validate returns an error on Enter (no backend call failing),
\* the error is rendered on the row after the prompt, the prompt is not
\* consumed, run stays in the loop to read the next key; such an Enter ends
\* run only with the Io error of a failed backend call, never with a failure
\* of another kind.
C8_ValidationErrorStaysRunning ==
    /\ branch = "enter" /\ vout = "Err" /\ ~RunFailed =>
          /\ pc = "running"
          /\ result = Running
          /\ enabled
          /\ ~Called("finish") /\ ~Called("finish_default")
          /\ \E i \in Idx : log[i].op = "err_render" /\ log[i].ok
                            /\ log[i].a = Wrap(base_row + pheight)
    /\ branch = "enter" /\ vout = "Err" /\ pc = "done" => result.kind = "Io"

\* C9: a prompt whose validate always returns an error never makes run
\* return a value through Enter, however many Enters are read; and an Enter
\* makes run return a value only when validate returned Finish.
C9_AlwaysErrNeverFinishes ==
    /\ vmode = "always_err" => result # OkValue("finish") /\ ~Called("finish")
    /\ vmode = "always_err" /\ branch = "enter" => vout = "Err" /\ result.kind # "Ok"
    /\ branch = "enter" /\ result.kind = "Ok" => vout = "Finish"
    /\ branch = "enter" /\ vout # "Finish" => result.kind # "Ok"

\* C9 witness: validate rejected two Enters and run is still in the loop.
C9_Witness ==
    /\ vmode = "always_err" /\ nvalidate = 2
    /\ branch = "enter" /\ vout = "Err" /\ pc = "running"

\* C10: finish_default is called only for an Escape with has_default, without
\* a call of validate, and run then returns its value; every Escape with
\* has_default ends run that way (no backend call failing); an Escape
\* without has_default goes to handle_key and returns no value.
C10_EscapeDefault ==
    /\ Called("finish_default") =>
          /\ lastKey.code = "Esc" /\ has_default /\ branch = "esc_default"
          /\ ~Called("validate")
          /\ pc = "done" /\ result = OkValue("finish_default")
    /\ lastKey.code = "Esc" /\ branch # "none" /\ has_default =>
          /\ branch = "esc_default"
          /\ ~Called("validate") /\ ~Called("handle_key")
          /\ pc = "done"
          /\ ~RunFailed => result = OkValue("finish_default") /\ Called("finish_default")
    /\ lastKey.code = "Esc" /\ branch # "none" /\ ~has_default =>
          /\ branch = "other"
          /\ log[1].op = "handle_key"
          /\ ~Called("finish_default") /\ ~Called("finish") /\ ~Called("validate")
          /\ result.kind # "Ok"

\* C10 witness: Escape with a default returned finish_default's value.
C10_Witness ==
    /\ pc = "done" /\ lastKey.code = "Esc" /\ has_default
    /\ Called("finish_default") /\ result = OkValue("finish_default")

\* C11: a key that is not Ctrl-C, Null, Enter or Escape-with-default goes to
\* the prompt's handle_key, called exactly once and first; render is entered
\* (its size query is the next call) exactly when handle_key returned true;
\* when it returned false nothing else is called, base_row and size keep
\* their values and run waits for the next key.
C11_OtherKeys ==
    [][
    (pc = "key" /\ branch' # "none") =>
        /\ (~(lastKey.code = "Char_c" /\ lastKey.ctrl) /\ lastKey.code \notin {"Null", "Enter"}
              /\ ~(lastKey.code = "Esc" /\ has_default)) => branch' = "other"
        /\ branch' = "other" =>
              /\ Len(log') >= 1 /\ log'[1].op = "handle_key"
              /\ Cardinality({i \in DOMAIN log' : log'[i].op = "handle_key"}) = 1
              /\ (log'[1].a = 1) <=> (Len(log') >= 2 /\ log'[2].op = "size")
              /\ (log'[1].a = 1 /\ \A i \in DOMAIN log' : log'[i].ok /\ log'[i].by = "run")
                    /\ pc' = "running" =>
                    \E i \in DOMAIN log' : log'[i].op = "prompt_render"
              /\ log'[1].a = 0 =>
                    /\ Len(log') = 1
                    /\ base_row' = base_row /\ size' = size
                    /\ pc' = "running" /\ result' = Running
    ]_vars

\* C11 witness: handle_key returned false for a key and run waits for the
\* next one, having called nothing else.
C11_Witness ==
    /\ pc = "running" /\ branch = "other" /\ lastKey.code = "Char_x"
    /\ Len(log) = 1 /\ log[1].op = "handle_key" /\ log[1].a = 0

\* ---------------------------------------------------------------- adjust_scrollback
\* The branch of adjust_scrollback was taken: a scroll was issued, or the
\* arithmetic inside the branch panicked.
Triggered ==
    \/ Called("scroll")
    \/ result.kind = "Panic" /\ result.op # "th - height"

\* C12: whenever base_row + height > terminal height, adjust_scrollback
\* returns a row new_base_row with 0 <= new_base_row and new_base_row +
\* height <= terminal height, no subtraction underflowing or wrapping.
C12_ScrollbackBound ==
    (pc = "adjusted" /\ base_row + pheight > size) =>
        /\ result.kind = "Ok"
        /\ 0 <= result.n /\ result.n <= base_row
        /\ result.n + pheight <= size

\* C13: whenever the adjustment triggers, the backend is scrolled up by
\* distance = base_row + height - terminal height + 1, the cursor is moved
\* up by that distance and the returned base_row is smaller by that distance.
C13_SameDistance ==
    (pc = "adjusted" /\ Triggered) =>
        LET distance == base_row + pheight - size + 1 IN
        /\ result.kind = "Ok"
        /\ Len(log) = 2
        /\ log[1].op = "scroll" /\ log[1].a = 0 - distance
        /\ log[2].op = "move_cursor_up" /\ log[2].a = distance
        /\ result.n = base_row - distance

\* C14 as stated: render of a prompt 5 rows high on a terminal 10 rows high
\* with base_row 8 scrolls by 8+5-10+1 = 4 and leaves base_row = 4.
C14_RenderScrollsByDeclaredHeight ==
    [][(pc = "call" /\ pc' = "rendered" /\ base_row = 8 /\ pheight = 5 /\ termH = 10) =>
          /\ \E i \in DOMAIN log' : log'[i].op = "scroll" /\ log'[i].a = 0 - 4
          /\ base_row' = 4]_vars

\* C14 amended: render feeds the prompt's height less one to the adjustment;
\* for a prompt 5 rows high, terminal height 10 and base_row 8 it scrolls by
\* 8+4-10+1 = 3, moves the cursor up by 3 and leaves base_row = 5, so that
\* the prompt's last row is the terminal's last row.
C14_RenderScrollsByHeightLessOne ==
    [][(pc = "call" /\ pc' = "rendered" /\ base_row = 8 /\ pheight = 5 /\ termH = 10) =>
          /\ result'.kind = "Ok"
          /\ \E i \in DOMAIN log' :
                /\ log'[i].op = "scroll" /\ log'[i].a = 0 - 3
                /\ log'[i + 1].op = "move_cursor_up" /\ log'[i + 1].a = 3
          /\ Cardinality({i \in DOMAIN log' : log'[i].op = "scroll"}) = 1
          /\ base_row' = 5
          /\ base_row' + pheight - 1 = size' - 1]_vars

\* C14 witness: that render has happened.
C14_Witness ==
    /\ pc = "rendered" /\ pheight = 5 /\ size = 10 /\ base_row = 5
    /\ \E i \in DOMAIN log : log[i].op = "scroll" /\ log[i].a = 0 - 3
    /\ \E i \in DOMAIN log : log[i].op = "prompt_render" /\ log[i].a = 5

\* C15 as stated: the adjustment triggers exactly when base_row + height >
\* terminal height; otherwise nothing is issued and base_row is returned.
C15_TriggersIffExceeds ==
    pc = "adjusted" =>
        /\ Triggered <=> (base_row + pheight > size)
        /\ ~Triggered => (log = <<>> /\ result.kind = "Ok" /\ result.n = base_row)

\* C15 amended: for a height not above the terminal height the adjustment
\* triggers exactly when base_row + height >= terminal height (at equality
\* too, by one row). For a height above the terminal height `th - height`
\* overflows: a build with overflow checks panics there, a build without
\* them compares base_row with the wrapped difference. Whenever the
\* adjustment does not trigger and returns, nothing was issued and
\* base_row is returned unchanged.
C15_TriggersIffReaches ==
    pc = "adjusted" =>
        /\ pheight <= size => (Triggered <=> (base_row + pheight >= size))
        /\ pheight > size =>
              IF checks THEN result = PanicErr("th - height", 0)
              ELSE Triggered <=> (base_row >= U16 + size - pheight)
        /\ (~Triggered /\ result.kind # "Panic") =>
              (log = <<>> /\ result.kind = "Ok" /\ result.n = base_row)

\* C15 witness: base_row + height equals the terminal height and the
\* adjustment scrolled by one row.
C15_Witness ==
    /\ pc = "adjusted" /\ base_row + pheight = size /\ base_row > 0
    /\ result.kind = "Ok" /\ result.n = base_row - 1
    /\ Len(log) = 2 /\ log[1].op = "scroll" /\ log[1].a = 0 - 1

\* ---------------------------------------------------------------- render
\* render ran to its end in the last step: its flush succeeded.
RenderDone ==
    /\ Len(log) > 0 /\ log[Len(log)].op = "flush" /\ log[Len(log)].ok
    /\ \E j \in Idx : log[j].op = "prompt_render" /\ log[j].ok

\* the height the prompt reported in the last step
Heights == {log[i].a : i \in {j \in Idx : log[j].op = "height"}}

\* C16 as stated: after every successful render, whatever base_row, prompt
\* height and terminal size were, base_row + prompt height <= terminal height.
C16_PromptOnScreen ==
    RenderDone => \A ph \in Heights : base_row + ph <= size

\* C16 amended: after every successful render of a prompt not higher than
\* the terminal, base_row + prompt height <= terminal height, so every
\* prompt row and the cursor row base_row + row (row < height) are on screen.
C16_PromptOnScreenIfItFits ==
    RenderDone =>
        \A ph \in Heights :
            ph <= size =>
                /\ base_row + ph <= size
                /\ \A i \in Idx : (log[i].op = "move_cursor_to" /\ log[i].ok) => log[i].b < size

\* C16 witness: a render after the terminal shrank below base_row + height
\* brought the prompt back on screen by scrolling.
C16_Witness ==
    /\ RenderDone /\ Heights = {2} /\ size = 2 /\ base_row = 0 /\ branch = "other"
    /\ \E i \in Idx : log[i].op = "scroll" /\ log[i].a = 0 - 1

Drawn(j) == log[j].op \in {"prompt_render", "err_render"} /\ log[j].ok

\* C18: after the prompt or the error has been drawn, with the cursor not
\* hidden the prompt's cursor_pos is asked and the cursor is moved to
\* (col, base_row + row) with the stored base_row (u16 arithmetic), then the
\* backend is flushed; with the cursor hidden cursor_pos is not asked and
\* the flush follows the drawing directly.
C18_FlushPlacesCursor ==
    /\ \A j \in Idx : Drawn(j) =>
          IF hide_cursor
          THEN /\ Len(log) > j /\ log[j + 1].op = "flush"
               /\ ~Called("cursor_pos")
          ELSE /\ Len(log) > j + 1
               /\ log[j + 1].op = "cursor_pos"
               /\ log[j + 1].a = pcur[1] /\ log[j + 1].b = pcur[2]
               /\ log[j + 2].op = "move_cursor_to"
               /\ log[j + 2].a = log[j + 1].a
               /\ log[j + 2].b = Wrap(base_row + log[j + 1].b)
               /\ log[j + 2].ok => (Len(log) > j + 2 /\ log[j + 3].op = "flush")
    /\ \A i \in Idx : log[i].op = "flush" =>
          /\ i > (IF hide_cursor THEN 1 ELSE 3)
          /\ Drawn(IF hide_cursor THEN i - 1 ELSE i - 3)

\* C18 witness: an error display with the cursor shown, the prompt's cursor
\* in its second row and the prompt not in the first screen row.
C18_Witness ==
    /\ ~hide_cursor /\ base_row >= 1 /\ pcur = <<1, 1>> /\ pc = "running"
    /\ \E j \in Idx :
          /\ log[j].op = "err_render" /\ log[j].ok
          /\ log[j + 2].op = "move_cursor_to" /\ log[j + 2].a = 1
          /\ log[j + 2].b = base_row + 1
          /\ log[j + 3].op = "flush" /\ log[j + 3].ok

\* ---------------------------------------------------------------- leaving the screen
\* The prompt's region was cleared before the guard was released: the
\* cursor went to (0, base_row), the screen was cleared from there down, and
\* reset came after that.
ClearedBeforeReset ==
    \E i, r \in Idx :
        /\ i > 1 /\ i < r
        /\ log[i].op = "clear" /\ log[i].ok
        /\ log[i - 1].op = "move_cursor_to" /\ log[i - 1].a = 0 /\ log[i - 1].b = base_row
        /\ log[r].op = "reset" /\ log[r].by = "run"

\* C19 as stated: whenever run returns a value, Interrupted or Eof, the
\* prompt's region was cleared before the guard was released.
C19_ClearedOnEveryExit ==
    (pc = "done" /\ result.kind \in {"Ok", "Interrupted", "Eof"}) => ClearedBeforeReset

\* C19 amended: when run returns a value (Enter or Escape) the prompt's
\* region was cleared (cursor to (0, base_row), clear from the cursor down)
\* before the guard was released; when run returns Interrupted or Eof
\* nothing is cleared: the prompt stays on the screen and the cursor is put
\* in column 0 of the row after it (base_row + height) before the release.
C19_ClearedOnFinishOnly ==
    pc = "done" =>
        /\ result.kind = "Ok" => ClearedBeforeReset
        /\ result.kind \in {"Interrupted", "Eof"} =>
              /\ ~Called("clear")
              /\ \E r \in Idx :
                    /\ r > 1 /\ log[r].op = "reset" /\ log[r].by = "run"
                    /\ log[r - 1].op = "move_cursor_to" /\ log[r - 1].a = 0
                    /\ \A ph \in Heights : log[r - 1].b = Wrap(base_row + ph)

\* C19 witness: run returned Interrupted with the prompt left on the screen.
C19_Witness ==
    /\ pc = "done" /\ result = Interrupted /\ branch = "ctrl_c"
    /\ ~Called("clear") /\ Called("reset") /\ Called("disable_raw_mode")

\* ---------------------------------------------------------------- the error line
\* the height of the error widget shown in the last step
ErrHeights == {log[i].a : i \in {j \in Idx : log[j].op = "err_height"}}

\* C20: on a validation failure the glyph is written with the cursor in
\* column 0 of row base_row + prompt height (base_row as stored after the
\* adjustment), and once the error has been drawn after the adjustment with
\* the combined height, base_row + prompt height + error height <= terminal
\* height.
C20_ErrorLineInsideTerminal ==
    (branch = "enter" /\ vout = "Err") =>
        \A ph \in Heights :
            /\ \A w \in Idx : log[w].op = "write_styled" =>
                  /\ w > 1 /\ log[w - 1].op = "move_cursor_to"
                  /\ log[w - 1].a = 0 /\ log[w - 1].b = Wrap(base_row + ph)
            /\ \A d \in Idx : (log[d].op = "err_render" /\ log[d].ok) =>
                  \A eh \in ErrHeights : base_row + ph + eh <= size

\* ---------------------------------------------------------------- the guard
\* C21: a reset of a guard that is not enabled is a no-op: it calls neither
\* show_cursor nor disable_raw_mode, so that two releases in a row issue each
\* of them at most once.
C21_ResetIdempotent ==
    [][(pc = "guard" /\ ~enabled /\ Len(log') > 0 /\ log'[1].op = "reset") =>
          \A i \in DOMAIN log' : log'[i].kind # "backend"]_vars

\* C22: release disables raw mode first, then restores the cursor if it was
\* hidden, and marks the guard not enabled last, after both calls.
C22_ReleaseOrder ==
    \A r \in Idx : (log[r].op = "set_enabled" /\ log[r].a = 0) =>
        \E d \in Idx :
            /\ d < r /\ log[d].op = "disable_raw_mode" /\ log[d].by = log[r].by
            /\ hide_cursor =>
                  \E c \in Idx : d < c /\ c < r /\ log[c].op = "show_cursor"

\* ---------------------------------------------------------------- a given key sequence
\* C23 as stated: on the keys [Char 'x', Enter], with validate returning an
\* error first and Finish second, run completes normally with the prompt's
\* value (no backend call failing and no row arithmetic overflowing).
C23_OneEnterCompletes ==
    (events.given = <<Key("Char_x"), Key("Enter")>> /\ pc = "done" /\ result.kind # "Io") =>
        \/ result = OkValue("finish")
        \/ result.kind = "Panic" /\ result.op # "events.next().unwrap()"

\* C23 amended: validate is called once per Enter. On [Char 'x', Enter] the
\* one Enter gets the error, which is displayed once, and no value is ever
\* returned: when the keys have run out, run panics. On [Char 'x', Enter,
\* Enter] the first Enter displays the error, the second returns the
\* prompt's value; an error is displayed on the first Enter only. (A run
\* may instead end with the Io error of a failing backend call, or with the
\* arithmetic panic of print_error when the prompt fills the terminal.)
C23_SecondEnterCompletes ==
    events.script =>
        /\ Called("err_render") => (branch = "enter" /\ vout = "Err" /\ nvalidate = 1)
        /\ (branch = "enter" /\ vout = "Err" /\ pc = "running") =>
              \E i \in Idx : log[i].op = "err_render" /\ log[i].ok
        /\ result = OkValue("finish") =>
              /\ nvalidate = 2 /\ events.rest = <<>>
              /\ events.given = <<Key("Char_x"), Key("Enter"), Key("Enter")>>
        /\ (pc = "done" /\ result.kind # "Io") =>
              IF Len(events.given) = 2
              THEN result.kind = "Panic"
              ELSE \/ result = OkValue("finish")
                   \/ result.kind = "Panic" /\ result.op # "events.next().unwrap()"

\* C23 witness: run returned the value at the second Enter of
\* [Char 'x', Enter, Enter].
C23_Witness ==
    /\ pc = "done" /\ result = OkValue("finish") /\ nvalidate = 2
    /\ Len(events.given) = 3 /\ events.rest = <<>> /\ lastKey = Key("Enter")

\* ---------------------------------------------------------------- dispatch
\* C30: a key event takes exactly one arm, the first that matches in the
\* order Ctrl-C, Null, Escape with a default, Enter, anything else; so
\* handle_key is never called with Ctrl-C, Null, Enter or Escape with a
\* default, and validate is called for Enter only.
C30_DispatchPriority ==
    LET isCtrlC == lastKey.code = "Char_c" /\ lastKey.ctrl
        isNull == lastKey.code = "Null"
        isEsc == lastKey.code = "Esc" /\ has_default
        isEnter == lastKey.code = "Enter"
        arm == CASE isCtrlC -> "ctrl_c"
                 [] ~isCtrlC /\ isNull -> "null"
                 [] ~isCtrlC /\ ~isNull /\ isEsc -> "esc_default"
                 [] ~isCtrlC /\ ~isNull /\ ~isEsc /\ isEnter -> "enter"
                 [] OTHER -> "other"
        count(name) == Cardinality({i \in Idx : log[i].op = name})
    IN
    /\ (lastKey # NoKey /\ branch # "none") => branch = arm
    /\ Called("handle_key") =>
          (branch = "other" /\ ~isCtrlC /\ ~isNull /\ ~isEnter /\ ~isEsc)
    /\ Called("validate") => (branch = "enter" /\ isEnter)
    /\ Called("finish_default") => (branch = "esc_default" /\ isEsc)
    /\ count("handle_key") + count("validate") <= 1
    /\ branch \in {"ctrl_c", "null", "esc_default"} =>
          count("handle_key") + count("validate") = 0
    /\ branch = "enter" => count("validate") = 1
    /\ branch = "other" => count("handle_key") = 1

\* C30 witness: Escape with a default took its arm, and the prompt saw
\* neither handle_key nor validate.
C30_Witness ==
    /\ branch = "esc_default" /\ lastKey.code = "Esc" /\ has_default /\ pc = "done"
    /\ Called("finish_default") /\ ~Called("handle_key") /\ ~Called("validate")

\* ---------------------------------------------------------------- the hover of a list
\* C24 (as stated): once a raw_select prompt has taken a key event, the
\* index of its list engine is a selectable item of the list: in range and
\* no separator, also after digits were typed.
C24_IndexSelectable ==
    (question.kind = "raw_select" /\ question.stage = "prompt" /\ question.key # NoListKey) =>
        question.at \in RawSelectable(question.list)

\* C24 (amended): once a raw_select prompt has taken a key event, the index
\* of its list engine is a selectable item of the list, or it is len + 1
\* (the answer input was edited and its text names no Choice), or it is still
\* the list's configured default, which nothing has checked.
C24_IndexSelectableOrMarker ==
    (question.kind = "raw_select" /\ question.stage = "prompt" /\ question.key # NoListKey) =>
        \/ question.at \in RawSelectable(question.list)
        \/ question.at = ChoiceList_len(question.list) + 1
        \/ question.list.has_default /\ question.at = question.list.default

\* a digit that names no Choice was typed into the answer input of a list
\* with a separator and two Choices, and the index is the marker
C24_Witness ==
    /\ question.kind = "raw_select" /\ question.stage = "prompt"
    /\ question.key.code = "Char" /\ is_digit(question.key.c) /\ question.handled
    /\ ChoiceList_len(question.list) = 3 /\ Cardinality(RawSelectable(question.list)) = 2
    /\ ~question.list.has_default
    /\ question.at = ChoiceList_len(question.list) + 1

\* C25: N Down keys from a Choice of a looping list with N Choices come back
\* to that Choice, passing over the separators; N Down keys from the last
\* Choice of a list that does not loop leave the index on the last Choice.
C25_Wraparound ==
    (question.kind = "select"
        /\ question.moves = Cardinality(ChoiceSelectable(question.list))) =>
        IF question.list.should_loop THEN question.at = question.start
        ELSE question.start = SetMax(ChoiceSelectable(question.list)) =>
                question.at = SetMax(ChoiceSelectable(question.list))

\* two Down keys in a looping list of two Choices around a separator
C25_Witness ==
    /\ question.kind = "select" /\ question.list.should_loop
    /\ ChoiceList_len(question.list) = 3 /\ ChoiceSelectable(question.list) = {0, 2}
    /\ question.moves = 2 /\ question.at = question.start /\ question.handled

\* C26 (as stated): no raw_select is built with a default that is not a
\* Choice of its list, and no session starts with the hover on an index that
\* is not selectable.
C26_DefaultRejectedAtBuild ==
    /\ (question.kind = "raw_select" /\ question.stage \in {"question", "prompt", "done"}
            /\ question.list.has_default) =>
          question.list.default \in RawSelectable(question.list)
    /\ (question.kind = "raw_select" /\ question.stage = "prompt"
            /\ question.key = NoListKey) =>
          question.at \in RawSelectable(question.list)

\* C27 (as stated): the page size of a list that reaches a session is 5 at
\* least.
C27_PageSizeAtLeastFive ==
    (question.kind \in {"raw_select", "expand"} /\ question.stage = "prompt") =>
        question.list.page_size >= MinPageSize

\* ---------------------------------------------------------------- the default of a number
\* C28: Enter on an int prompt with a default and an empty input finishes
\* with the default: the user's validate is not called and the user's filter
\* is applied to the default; with text in the input the default plays no
\* part: the parsed text is what validate is called with and what is returned
\* (through the filter), and Enter does not finish if it does not parse or
\* validate rejects it.
C28_DefaultOnEmptyInput ==
    (question.kind = "int" /\ question.key = ListKey("Enter", "")) =>
        IF question.text = <<>> /\ question.default.some
        THEN /\ question.stage = "done"
             /\ question.validated = <<>>
             /\ question.filtered = IF question.filter = "None" THEN <<>>
                                    ELSE <<question.default.n>>
             /\ question.answer = IF question.filter = "None" THEN question.default
                                  ELSE Some(filter_fn(question.filter, question.default.n))
        ELSE LET n == parse_i64(question.text)
                 accepted == n.ok /\ (question.validate # "None" =>
                                         validate_fn(question.validate, n.n))
             IN  /\ question.validated = IF n.ok /\ question.validate # "None"
                                         THEN <<n.n>> ELSE <<>>
                 /\ question.stage = IF accepted THEN "done" ELSE "prompt"
                 /\ accepted =>
                       /\ question.filtered = IF question.filter = "None" THEN <<>> ELSE <<n.n>>
                       /\ question.answer = IF question.filter = "None" THEN Some(n.n)
                                            ELSE Some(filter_fn(question.filter, n.n))
                 /\ ~accepted => question.filtered = <<>> /\ question.answer = None

\* Enter on an empty input finished with the filtered default, which the
\* user's validate would have rejected
C28_Witness ==
    /\ question.kind = "int" /\ question.stage = "done" /\ question.text = <<>>
    /\ question.default = Some(2) /\ question.validate = "never" /\ question.filter = "succ"
    /\ question.validated = <<>> /\ question.filtered = <<2>> /\ question.answer = Some(3)

C31_RenderOrder ==
    RenderDone =>
        \E s \in Idx :
            /\ log[s].op = "size" /\ \A i \in Idx : log[i].op = "size" => i = s
            /\ LET ops == OpsOf(SubSeq(log, s, Len(log)))
                   adjust == IF \E i \in Idx : log[i].op = "scroll"
                             THEN <<"scroll", "move_cursor_up">> ELSE <<>>
                   place == IF hide_cursor THEN <<>> ELSE <<"cursor_pos", "move_cursor_to">>
                   c == s + 2 + Len(adjust)
               IN  /\ ops = <<"size", "height">> \o adjust
                               \o <<"move_cursor_to", "clear", "prompt_render">>
                               \o place \o <<"flush">>
                   /\ size = log[s].a /\ log[s + 1].b = log[s].a
                   /\ log[c].a = 0 /\ log[c].b = base_row
                   /\ log[c + 2].a = base_row
                   /\ ~hide_cursor => log[c + 4].b = Wrap(base_row + log[c + 3].b)

\* a render after a key, in a terminal that had shrunk, scrolled by one row
\* and placed the cursor below the new base_row
C31_Witness ==
    /\ RenderDone /\ branch = "other" /\ ~hide_cursor /\ Heights = {2} /\ size = 2
    /\ base_row = 0
    /\ OpsOf(log) = <<"handle_key", "size", "height", "scroll", "move_cursor_up",
                      "move_cursor_to", "clear", "prompt_render", "cursor_pos",
                      "move_cursor_to", "flush">>
    /\ log[10].b = 1

\* ---------------------------------------------------------------- init
\* C32: init marks the guard enabled first, then issues hide_cursor (when
\* the cursor is to be hidden) and enable_raw_mode, in that order; when one of
\* the two fails, run returns and the drop of the still enabled guard runs
\* its reset; when they succeed, get_cursor_pos follows, its row becomes
\* base_row (less what the first render scrolls), and one render, no more,
\* is made before any key event is pulled.
C32_InitOrder ==
    branch = "init" =>
        /\ Len(log) >= 2
        /\ log[1] = Entry("guard", "set_enabled", 1, 0, TRUE, "run", 0)
        /\ log[2].op = (IF hide_cursor THEN "hide_cursor" ELSE "enable_raw_mode")
        /\ (hide_cursor /\ log[2].ok) => (Len(log) >= 3 /\ log[3].op = "enable_raw_mode")
        /\ \A i \in Idx : log[i].op \in {"hide_cursor", "enable_raw_mode"} /\ Failed(i) =>
              /\ pc = "done" /\ ~enabled
              /\ Len(log) > i
              /\ log[i + 1] = Entry("guard", "reset", 0, 0, TRUE, "drop", 0)
              /\ \A j \in Idx : j > i => log[j].by = "drop"
        /\ \A g \in Idx : log[g].op = "get_cursor_pos" =>
              /\ g = (IF hide_cursor THEN 4 ELSE 3)
              /\ \A j \in Idx : j < g => log[j].ok
              /\ log[g].ok =>
                    /\ Len(log) > g /\ log[g + 1].op = "size"
                    /\ Cardinality({j \in Idx : log[j].op = "size"}) = 1
                    /\ Cardinality({j \in Idx : log[j].op = "prompt_render"}) <= 1
                    /\ base_row = (IF \E u \in Idx : log[u].op = "move_cursor_up" /\ log[u].ok
                                   THEN Wrap(log[g].a - log[CHOOSE u \in Idx : log[u].op = "move_cursor_up"].a)
                                   ELSE log[g].a)
        /\ lastKey = NoKey
        /\ pc = "running" =>
              /\ Cardinality({j \in Idx : log[j].op = "prompt_render"}) = 1
              /\ log[Len(log)].op = "flush"
              /\ \A j \in Idx : log[j].ok /\ log[j].by = "run"

\* C32 witness: enable_raw_mode failed after the cursor was hidden, and the
\* drop of the guard released the terminal.
C32_Witness ==
    /\ branch = "init" /\ hide_cursor
    /\ log[2].ok /\ log[3].op = "enable_raw_mode" /\ ~log[3].ok
    /\ \E j \in Idx : j > 3 /\ log[j].op = "show_cursor" /\ log[j].by = "drop"
    /\ ~enabled

\* ---------------------------------------------------------------- base_row
\* The rows the backend was scrolled by in the calls of l.
Scrolled(l) ==
    LET f[i \in 0..Len(l)] ==
            IF i = 0 THEN 0
            ELSE f[i - 1] + (IF l[i].op = "scroll" /\ l[i].ok THEN 0 - l[i].a ELSE 0)
    IN  f[Len(l)]

\* C33: base_row stays in step with the screen: in every step of the loop
\* (the handling of one key event) that ran to its end (no call failed, nothing panicked), base_row has gone
\* down (in u16 arithmetic) by exactly the number of rows the backend was
\* scrolled by in that step.
C33_BaseRowInSync ==
    [][(/\ pc = "key"
        /\ result'.kind # "Panic"
        /\ \A i \in DOMAIN log' : log'[i].by = "run" => log'[i].ok)
       => base_row' = Wrap(base_row - Scrolled(log'))]_vars

\* ---------------------------------------------------------------- one release
\* C34: in a run the guard's reset is invoked at most once, by exit / finish
\* or by the drop of the guard, never by both; once it has been invoked the
\* only backend calls that follow are the ones reset itself makes, and run
\* has returned.
C34_ReleaseOnce ==
    /\ Cardinality({i \in DOMAIN modeOps : modeOps[i].op = "reset"}) <= 1
    /\ \A i \in DOMAIN modeOps : modeOps[i].op = "reset" =>
          /\ pc = "done"
          /\ \A j \in DOMAIN modeOps : j > i => modeOps[j].by = modeOps[i].by
    /\ \A i \in Idx : log[i].op = "reset" =>
          \A j \in Idx : j > i =>
              /\ log[j].by = log[i].by
              /\ log[j].kind = "backend" => log[j].op \in {"show_cursor", "disable_raw_mode"}
              /\ log[j].op \in ReleaseOps \cup {"finish", "finish_default"}

\* C34 witness: the reset of exit failed at show_cursor; the guard was
\* already marked not enabled, so its drop did not reset again.
C34_Witness ==
    /\ pc = "done" /\ branch = "ctrl_c" /\ hide_cursor
    /\ \E i \in Idx : log[i].op = "show_cursor" /\ log[i].by = "run" /\ Failed(i)
    /\ \A i \in Idx : log[i].by = "run"

\* C35: once init has recorded it, base_row never increases: the handling
\* of a key event leaves it where it was or lower, and a resize of the
\* terminal leaves it alone.
C35_BaseRowNeverIncreases ==
    [][(pc \in {"running", "key"}) => (base_row' <= base_row)]_vars

\* ---------------------------------------------------------------- raw_select numbers
\* the Choices among the first k + 1 entries of l
ChoicesUpTo(l, k) == Cardinality({j \in 0..k : ChoiceList_at(l, j).tag = "Choice"})
\* the answer input was edited by the last key
Edited == question.handled /\ question.key.code \in {"Char", "Backspace"}

\* C36: the Choices of a raw_select are numbered 1, 2, 3, .. in insertion
\* order, separators taking no number; after an edit of the answer input
\* whose text parses to the number of a Choice the hover is on that Choice,
\* after any other edit (0, a number above the number of Choices, an empty
\* text) it is out of range (len + 1); and an Enter with the hover out of
\* range is rejected by validate and does not finish.
C36_NumberedChoices ==
    question.kind = "raw_select" =>
        LET l == question.list
            len == ChoiceList_len(l)
            n == parse_usize(question.text)
            named == {k \in 0..(len - 1) :
                         ChoiceList_at(l, k).tag = "Choice" /\ n.ok /\ ChoicesUpTo(l, k) = n.n}
        IN  /\ \A k \in 0..(len - 1) :
                  ChoiceList_at(l, k).tag = "Choice" => ChoiceList_at(l, k).i = ChoicesUpTo(l, k)
            /\ question.choice_count = 1 + (IF len = 0 THEN 0 ELSE ChoicesUpTo(l, len - 1))
            /\ (question.stage = "prompt" /\ Edited) =>
                  /\ named # {} => named = {question.at}
                  /\ named = {} => question.at = len + 1
            /\ question.at >= len => RawSelectPrompt_validate(question) = "Please enter a valid choice"
            /\ (question.key.code = "Enter" /\ question.at >= len) =>
                  question.stage = "prompt" /\ ~question.handled
            /\ question.stage = "done" => question.at < len

\* C36 witness: the list is Choice 1, a separator, Choice 2; "3" was typed,
\* which is within the length of the list but names no Choice, the hover
\* went out of range and Enter was rejected.
C36_Witness ==
    /\ question.kind = "raw_select" /\ question.stage = "prompt"
    /\ question.list.choices = <<Choice(1), Separator, Choice(2)>>
    /\ question.key.code = "Enter" /\ question.text = <<"3">>
    /\ question.at = 4

\* the prompt after the characters of s were typed into it one by one
RECURSIVE TypeInto(_, _)
TypeInto(q, s) ==
    IF s = <<>> THEN q
    ELSE TypeInto(RawSelectPrompt_handle_key(q, ListKey("Char", Head(s))), Tail(s))

\* a navigation key was handled by the list
Navigated ==
    /\ question.kind = "raw_select" /\ question.stage = "prompt"
    /\ question.handled /\ question.key.code \in {"Up", "Down"}

\* C37: after a navigation key was handled by the list, the hover is on a
\* Choice, the text of the answer input is the number displayed for that
\* Choice, and typing that number into an empty input puts the hover on the
\* same index and leaves the same text.
C37_NavigateThenRetype ==
    Navigated =>
        /\ question.at < ChoiceList_len(question.list)
        /\ ChoiceList_at(question.list, question.at).tag = "Choice"
        /\ question.text = to_string(ChoiceList_at(question.list, question.at).i)
        /\ LET retyped == TypeInto([question EXCEPT !.text = <<>>], question.text)
           IN  /\ retyped.stage = "prompt" /\ retyped.handled
               /\ retyped.at = question.at
               /\ retyped.text = question.text

\* C37 witness: Down moved the hover over a separator to the Choice
\* numbered 2 at index 2, and the input reads "2".
C37_Witness ==
    /\ Navigated /\ question.key.code = "Down"
    /\ question.list.choices = <<Choice(1), Separator, Choice(2)>>
    /\ question.at = 2 /\ question.text = <<"2">>

\* C38: whenever Enter passes validate and the prompt finishes, the hover
\* handed to finish_index is on a Choice, never on a separator: unwrap_choice
\* does not panic and the answer is the hovered Choice.
C38_FinishOnChoice ==
    (question.kind = "raw_select" /\ question.key.code = "Enter" /\ question.at < ChoiceList_len(question.list)) =>
        /\ ChoiceList_at(question.list, question.at).tag = "Choice"
        /\ question.stage = "done"
        /\ question.answer = question.at

\* ---------------------------------------------------------------- expand keys
\* the key Enter acts on: the value of the input, or the default
EffectiveKey == IF question.value.some THEN question.value.n ELSE question.default

\* C39: at an expand prompt, Enter with the effective key 'h' sets expanded,
\* empties the input and the selection and says Continue, the prompt not
\* finishing; Enter with any other effective key says Finish and the prompt
\* leaves the loop; and no key sets expanded back to false.
C39_HelpExpands ==
    [][(question.kind = "expand" /\ question.stage = "prompt") =>
          /\ question.expanded => question'.expanded
          /\ question'.key.code = "Enter" =>
                IF EffectiveKey = "h"
                THEN /\ question'.expanded
                     /\ ~question'.value.some /\ ~question'.selected.some
                     /\ question'.validation = "Continue"
                     /\ question'.stage = "prompt"
                ELSE /\ question'.validation = "Finish"
                     /\ question'.stage # "prompt"
                     /\ question'.expanded = question.expanded]_vars

\* C39 witness: 'h' was typed at a prompt whose default is another key, and
\* Enter expanded the list and emptied the input.
C39_Witness ==
    /\ question.kind = "expand" /\ question.stage = "prompt"
    /\ question.default = "a"
    /\ question.key.code = "Enter" /\ question.validation = "Continue"
    /\ question.expanded /\ ~question.value.some /\ ~question.selected.some

\* C40: whenever an expand prompt finishes, by Enter with a typed key or
\* with the default, or by Escape with the default, finish_with finds a
\* Choice whose key is that character: the prompt ends with an answer, never
\* with the panic of the unwrap.
C40_LookupNeverFails ==
    (question.kind = "expand" /\ question.key.code \in {"Enter", "Esc"}
        /\ question.stage # "prompt") =>
        /\ question.stage = "done"
        /\ ChoiceList_at(question.list, question.answer).tag = "Choice"
        /\ ChoiceList_at(question.list, question.answer).key = EffectiveKey

====
